---- MODULE Spec2Model ----
(***************************************************************************)
(* Model of sqlite-vec-client: SQLiteVecClient (sqlite_vec_client/base.py)  *)
(* on one sqlite3 connection, and ConnectionPool (sqlite_vec_client/pool.py)*)
(* used by several threads.                                                 *)
(*                                                                          *)
(* The client part keeps two copies of the database: `work`, what the       *)
(* connection sees (including statements of its open sqlite transaction),   *)
(* and `comm`, what has been committed.  connection.commit() copies work to *)
(* comm, connection.rollback() copies comm to work.                         *)
(***************************************************************************)
EXTENDS Integers, Sequences, FiniteSets, TLC

\* ---------------------------------------------------------------- bounds
MaxRowid == 2      \* largest rowid the AUTOINCREMENT counter may reach
MaxBatch == 2      \* longest list passed to add / update_many / delete_many
MaxDepth == 2      \* transaction() scopes open at the same time
MaxCalls == 5      \* calls made on the client in one session
NumThreads == 3    \* threads that use the pool
MaxPoolSize == 2   \* largest pool_size a pool is constructed with
MaxNameLen == 3    \* longest string passed to validate_table_name on its own
MaxVecLen == 3     \* longest vector passed to serialize_f32 on its own

\* ------------------------------------------------------- program constants
chunk_size == 500  \* delete_many: parameters per DELETE statement

\* ------------------------------------------------------------ input sets
Texts == {"a"}
\* embeddings offered by callers: length 1 (the dimension tables are created
\* with) and length 2 (a wrong dimension)
Embeddings == {<<0>>, <<0, 1>>}
Dims == {0, 1}
\* (dim, distance) pairs offered to create_table where rebinding is looked at
CreateArgs == {<<0, "cosine">>, <<1, "cosine">>, <<2, "L1">>}
TableNames == {<<"t">>, <<"t", "-">>}
\* the metadata dict {"k": "x"}
DictKX == [k \in {"k"} |-> <<"str", "x">>]
None == "None"
\* None in the place of a vector
NoneVec == <<-1>>
Rowids == 1..MaxRowid
\* fields offered to update / update_many
UpdManyFields == {<<None, NoneVec>>, <<None, <<1>>>>, <<None, <<0, 1>>>>}
UpdFields == {<<None, NoneVec>>, <<"b", NoneVec>>, <<None, <<1>>>>, <<None, <<0, 1>>>>}

Letters == {"t", "_"}
Digits == {"1"}

\* ------------------------------------------------------------ sequences
SeqsUpTo(S, n) == UNION {[1..k -> S] : k \in 0..n}

RECURSIVE Flatten(_)
Flatten(ss) == IF ss = <<>> THEN <<>> ELSE Head(ss) \o Flatten(Tail(ss))

Range(s) == {s[i] : i \in DOMAIN s}

MaxOf(S) == IF S = {} THEN 0 ELSE CHOOSE x \in S : \A y \in S : y <= x

\* a metadata dict is a function from keys to JSON values; a JSON value is
\* <<"str", s>>, <<"num", n>> (a float), <<"int", n>>, <<"bool", b>> or
\* <<"null">>
EmptyDict == [k \in {} |-> k]

\* None in the place of a list of metadata dicts
NoneDicts == <<[none |-> TRUE]>>

\* the (texts, embeddings, metadata) triples offered to add: lists of equal
\* length without metadata, and three with lists of unequal length
AddInputs ==
    {<<[i \in DOMAIN rs |-> rs[i][1]], [i \in DOMAIN rs |-> rs[i][2]], NoneDicts>> :
        rs \in SeqsUpTo(Texts \X Embeddings, MaxBatch)}
    \cup {<<(<<"a">>), <<>>, NoneDicts>>,
          <<(<<"a">>), <<(<<0>>), <<0>>>>, NoneDicts>>,
          <<(<<"a">>), <<(<<0>>)>>, <<>>>>}

\* the (texts, embeddings, metadata) triples offered to add where deleted rows
\* are searched for: one row without metadata and one with {"k": "x"}
DeleteAdds ==
    {<<(<<"a">>), <<(<<0>>)>>, NoneDicts>>,
     <<(<<"a">>), <<(<<1>>)>>, <<DictKX>>>>}

\* the (rowid, text, embedding) entries offered to update_many where its count
\* is looked at: no field, a text, an embedding, for the first and the last
\* rowid; and the lists of up to two of them
UpdEntries ==
    {<<r, f[1], f[2]>> :
        r \in {1, MaxRowid}, f \in {<<None, NoneVec>>, <<"b", NoneVec>>, <<None, <<1>>>>}}

UpdLists == SeqsUpTo(UpdEntries, 2)

\* the lists of rowids offered to delete_many where chunks are looked at:
\* the short ones, chunk_size times one rowid, and chunk_size times one rowid
\* followed by a rowid that falls into the second chunk
RowidLists ==
    SeqsUpTo(Rowids, MaxBatch)
    \cup {[i \in 1..chunk_size |-> a] : a \in Rowids}
    \cup {[i \in 1..(chunk_size + 1) |-> IF i <= chunk_size THEN a ELSE b] :
             a \in Rowids, b \in Rowids}

\* the limits and offsets offered to filter_by_metadata where pages are put
\* together
PageLimits == {1, 2}
PageOffsets == {0, 1, 2}

\* the filters offered to similarity_search_with_filter where its rows are
\* compared with those of similarity_search: none, {"k": "x"} and {"k": 0}
SearchFilters ==
    {<<>>, <<(<<"k", <<"str", "x">>>>)>>, <<(<<"k", <<"num", 0>>>>)>>}

\* the values and the vectors offered to serialize_f32 on its own
FloatValues == {0, 1, -1, 2, 3, -6, 16777215}

Vectors == SeqsUpTo(FloatValues, MaxVecLen)

\* the batch sizes offered to get_all
BatchSizes == {0, 1, 2}

\* the filters, limits and offsets offered to filter_by_metadata, and the
\* top_k offered to similarity_search
Filters == {<<>>, <<(<<"k", <<"str", "x">>>>)>>}
Limits == {0, 1}
Offsets == {-1, 0}
\* the filter mappings offered to build_metadata_where_clause on its own: no
\* key, one key or two different keys, in either order, with a null, a
\* boolean, an int, a float and two strings as values
FilterValues ==
    {<<"null">>, <<"bool", TRUE>>, <<"int", 5>>, <<"num", 5>>, <<"str", "x">>,
     <<"str", "y">>}
TopKs == {0, 2}

\* ------------------------------------------------------------ utils.py
\* The floats of the model are the integers of magnitude below 2^24, each of
\* which a float32 holds exactly: sign bit, exponent e + 127 in 8 bits, and in
\* 23 bits the fraction of |x| / 2^e, where 2^e <= |x| < 2^(e+1).
RECURSIVE Pow2(_)
Pow2(n) == IF n <= 0 THEN 1 ELSE 2 * Pow2(n - 1)

RECURSIVE Log2(_)
Log2(n) == IF n < 2 THEN 0 ELSE 1 + Log2(n \div 2)

\* the 31 bits below the sign bit
F32Magnitude(x) ==
    LET a == IF x < 0 THEN -x ELSE x
        e == Log2(a)
    IN  IF x = 0 THEN 0
        ELSE (e + 127) * 8388608 + (a - Pow2(e)) * Pow2(23 - e)

\* struct.pack(">f", x): the same four bytes, most significant first
F32Bytes_big_endian(x) ==
    LET mag == F32Magnitude(x)
    IN  <<(mag \div 16777216) + (IF x < 0 THEN 128 ELSE 0),
          (mag \div 65536) % 256, (mag \div 256) % 256, mag % 256>>

\* struct.pack("f", x): the four bytes of the float32, least significant first
F32Bytes(x) ==
    LET mag == F32Magnitude(x)
    IN  <<mag % 256, (mag \div 256) % 256, (mag \div 65536) % 256,
          (mag \div 16777216) + (IF x < 0 THEN 128 ELSE 0)>>

serialize_f32(embeddings) ==
    Flatten([i \in DOMAIN embeddings |-> F32Bytes(embeddings[i])])

\* struct.unpack("f", bytes): the value of the four bytes read least
\* significant first; 2^24 stands for every value that is not a float of the
\* model (a fraction, a magnitude of 2^24 or more, inf, nan)
F32Value(bytes) ==
    LET mag == (bytes[4] % 128) * 16777216 + bytes[3] * 65536 + bytes[2] * 256
               + bytes[1]
        e == (mag \div 8388608) - 127
        fraction == 8388608 + (mag % 8388608)
    IN  IF mag = 0 THEN 0
        ELSE IF e < 0 \/ e > 23 \/ fraction % Pow2(23 - e) # 0 THEN 16777216
        ELSE IF bytes[4] >= 128 THEN -(fraction \div Pow2(23 - e))
        ELSE fraction \div Pow2(23 - e)

deserialize_f32(blob) ==
    [i \in 1..(Len(blob) \div 4) |-> F32Value(SubSeq(blob, 4 * i - 3, 4 * i))]

\* json.dumps / json.loads of a metadata dict or a filter value
json_dumps(md) == <<"json", md>>

json_loads(text) == text[2]

\* isinstance(value, bool)
isinstance_bool(value) == value[1] = "bool"

\* isinstance(value, (int, float)): bool is a subclass of int
isinstance_int_float(value) == value[1] \in {"bool", "int", "num"}

\* a float(value) that hands the value on as it is
float_identity(value) == value

\* float(value)
float(value) ==
    <<"num", IF value[1] = "bool" THEN (IF value[2] THEN 1 ELSE 0) ELSE value[2]>>

\* sep.join(strs), the text as the list of its pieces
RECURSIVE Join(_, _)
Join(sep, strs) ==
    IF strs = <<>> THEN <<>>
    ELSE IF Len(strs) = 1 THEN strs
    ELSE <<Head(strs), sep>> \o Join(sep, Tail(strs))

\* build_metadata_where_clause, the loop: one condition per filter entry, in
\* order; each names the JSON path and, except IS NULL, a parameter
build_metadata_where_clause(filters) ==
    [i \in DOMAIN filters |->
        LET key == filters[i][1]
            value == filters[i][2]
            json_path == <<"$", key>>
        IN  IF value[1] = "null" THEN
                [sql |-> "json_extract(metadata, ?) IS NULL", path |-> json_path,
                 param |-> <<>>]
            ELSE IF isinstance_bool(value) THEN
                [sql |-> "json_extract(metadata, ?) = json(?)", path |-> json_path,
                 param |-> <<json_dumps(value)>>]
            ELSE IF isinstance_int_float(value) THEN
                [sql |-> "CAST(json_extract(metadata, ?) AS REAL) = ?",
                 path |-> json_path, param |-> <<float(value)>>]
            ELSE
                [sql |-> "json_extract(metadata, ?) = ?", path |-> json_path,
                 param |-> <<value>>]]

\* a clause text that has the keys in it
where_sql_with_keys(where) ==
    Join(" AND ", Flatten([i \in DOMAIN where |-> <<where[i].sql, where[i].path[2]>>]))

\* build_metadata_where_clause, what it returns: " AND ".join(conditions) ...
where_sql(where) == Join(" AND ", [i \in DOMAIN where |-> where[i].sql])

\* ... and params, the path and the parameter of each condition in order
where_params(where) ==
    Flatten([i \in DOMAIN where |-> <<where[i].path>> \o where[i].param])

\* ------------------------------------------------------------ validation.py
\* _TABLE_NAME_PATTERN = ^[a-zA-Z_][a-zA-Z0-9_]*$ ; in Python "$" also matches
\* just before a newline that ends the string
PatternMatch(table) ==
    LET body == IF Len(table) > 1 /\ table[Len(table)] = "\n"
                THEN SubSeq(table, 1, Len(table) - 1) ELSE table
    IN  /\ Len(body) >= 1
        /\ body[1] \in Letters
        /\ \A i \in 2..Len(body) : body[i] \in Letters \cup Digits

validate_table_name(table) ==
    IF table = <<>> THEN "TableNameError"
    ELSE IF ~PatternMatch(table) THEN "TableNameError"
    ELSE "none"

validate_dimension(dim) == IF dim <= 0 THEN "ValidationError" ELSE "none"

validate_top_k(top_k) == IF top_k <= 0 THEN "ValidationError" ELSE "none"

validate_limit(limit) == IF limit <= 0 THEN "ValidationError" ELSE "none"

validate_offset(offset) == IF offset < 0 THEN "ValidationError" ELSE "none"

validate_embeddings_match(texts, embeddings, metadata) ==
    IF Len(texts) # Len(embeddings) THEN "ValidationError"
    ELSE IF metadata # NoneDicts /\ Len(texts) # Len(metadata) THEN "ValidationError"
    ELSE "none"

\* imported by base.py, not defined in validation.py: an empty filter mapping
\* is rejected
validate_metadata_filters(filters) ==
    IF filters = <<>> THEN "ValidationError" ELSE "none"

validate_embedding_dimension(embedding, expected_dim) ==
    IF Len(embedding) # expected_dim THEN "DimensionMismatchError" ELSE "none"

\* ------------------------------------------------------------ the database
\* base     the record table {table} exists
\* vec      the vec0 table {table}_vec exists, bound to dimension dim and
\*          to distance metric metric
\* trig     the triggers that exist
\* rows     rowid -> [text, metadata, emb] of the record table
\* index    rowid -> embedding blob of the vec0 table
\* seq      sqlite_sequence entry of the record table (AUTOINCREMENT)
EmptyFn == [x \in {} |-> x]

EmptyDb == [base |-> FALSE, vec |-> FALSE, dim |-> 0, metric |-> "", trig |-> {},
            rows |-> EmptyFn, index |-> EmptyFn, seq |-> 0]

Drop(f, S) == [x \in DOMAIN f \ S |-> f[x]]

Put(f, k, v) == [x \in DOMAIN f \cup {k} |-> IF x = k THEN v ELSE f[x]]

\* the statements reach the engine with the table name interpolated; a name
\* outside the identifier syntax makes each of them a syntax error
SqlParses(table) == validate_table_name(table) = "none"

\* ------------------------------------------------------------ the engine
\* Each statement is atomic: when a trigger fails the whole statement is
\* undone (ON CONFLICT ABORT) and the database is as before the statement.
Ok(db, n) == [db |-> db, err |-> "none", rowcount |-> n]

Fail(db, e) == [db |-> db, err |-> e, rowcount |-> 0]

\* rowid INTEGER PRIMARY KEY without AUTOINCREMENT: one more than the largest
\* rowid the table holds
NextRowid_without_autoincrement(db) == MaxOf(DOMAIN db.rows) + 1

\* rowid INTEGER PRIMARY KEY AUTOINCREMENT: one more than the largest rowid
\* the table has ever held
NextRowid(db) ==
    (IF db.seq >= MaxOf(DOMAIN db.rows) THEN db.seq ELSE MaxOf(DOMAIN db.rows)) + 1

\* vec0 accepts a vector only if it has the dimension of the column
Vec0Accepts(db, blob) == Len(blob) = 4 * db.dim

\* INSERT INTO {table}(text, metadata, text_embedding) VALUES (?,?,?)
\* and trigger {table}_embed_text
InsertStmt(db, row) ==
    IF ~db.base THEN Fail(db, "no such table")
    ELSE LET rid == NextRowid(db)
             db1 == [db EXCEPT !.rows = Put(@, rid, row), !.seq = rid]
         IN  IF "embed_text" \notin db.trig THEN Ok(db1, 1)
             ELSE IF ~Vec0Accepts(db, row.emb) THEN Fail(db, "dimension mismatch")
             ELSE Ok([db1 EXCEPT !.index = Put(@, rid, row.emb)], 1)

\* UPDATE {table} SET text = ?, text_embedding = ? WHERE rowid = ? with the
\* parameters as given, None included
UpdateStmt_sets_every_field(db, rowid, text, blob) ==
    IF ~db.base THEN Fail(db, "no such table")
    ELSE IF rowid \notin DOMAIN db.rows THEN Ok(db, 0)
    ELSE LET old == db.rows[rowid]
             new == [text |-> text,
                     metadata |-> old.metadata,
                     emb |-> IF blob = NoneVec THEN old.emb ELSE blob]
         IN  Ok([db EXCEPT !.rows = Put(@, rowid, new)], 1)

\* UPDATE {table} SET ... WHERE rowid = ?  and trigger
\* {table}_update_text_embedding (AFTER UPDATE OF text_embedding)
UpdateStmt(db, rowid, text, blob) ==
    IF ~db.base THEN Fail(db, "no such table")
    ELSE IF rowid \notin DOMAIN db.rows THEN Ok(db, 0)
    ELSE LET old == db.rows[rowid]
             new == [text |-> IF text = None THEN old.text ELSE text,
                     metadata |-> old.metadata,
                     emb |-> IF blob = NoneVec THEN old.emb ELSE blob]
             db1 == [db EXCEPT !.rows = Put(@, rowid, new)]
         IN  IF blob = NoneVec \/ "update_text_embedding" \notin db.trig
                THEN Ok(db1, 1)
             ELSE IF rowid \notin DOMAIN db.index THEN Ok(db1, 1)
             ELSE IF ~Vec0Accepts(db, new.emb) THEN Fail(db, "dimension mismatch")
             ELSE Ok([db1 EXCEPT !.index = Put(@, rowid, new.emb)], 1)

\* DELETE whose trigger {table}_delete_row leaves the index alone
DeleteStmt_keeps_index(db, rowids) ==
    IF ~db.base THEN Fail(db, "no such table")
    ELSE LET gone == Range(rowids) \cap DOMAIN db.rows
         IN  Ok([db EXCEPT !.rows = Drop(@, gone)], Cardinality(gone))

\* DELETE FROM {table} WHERE rowid IN (...)  and trigger {table}_delete_row
DeleteStmt(db, rowids) ==
    IF ~db.base THEN Fail(db, "no such table")
    ELSE LET gone == Range(rowids) \cap DOMAIN db.rows
             db1 == [db EXCEPT !.rows = Drop(@, gone)]
         IN  IF "delete_row" \notin db.trig THEN Ok(db1, Cardinality(gone))
             ELSE Ok([db1 EXCEPT !.index = Drop(@, gone)], Cardinality(gone))

\* json_extract(metadata, '$.key') as an SQL value: NULL for a missing key and
\* for JSON null, 1 / 0 for JSON true / false, the number or the text otherwise
json_extract(metadata, path) ==
    LET md == json_loads(metadata)
        key == path[2]
    IN  IF key \notin DOMAIN md THEN <<"NULL">>
        ELSE IF md[key][1] = "null" THEN <<"NULL">>
        ELSE IF md[key][1] = "bool" THEN <<"NUM", IF md[key][2] THEN 1 ELSE 0>>
        ELSE IF md[key][1] \in {"num", "int"} THEN <<"NUM", md[key][2]>>
        ELSE <<"TEXT", md[key][2]>>

\* CAST(text AS REAL) for the strings of the model: the numeric prefix, else 0
TextToReal(text) == IF text = "1" THEN 1 ELSE 0

\* json(?) of the text json.dumps made of a boolean
JsonText(param) == IF json_loads(param)[2] THEN "true" ELSE "false"

\* one condition of the WHERE clause on one row
CondHolds(metadata, cond) ==
    LET v == json_extract(metadata, cond.path)
    IN  IF cond.sql = "json_extract(metadata, ?) IS NULL" THEN v[1] = "NULL"
        ELSE IF v[1] = "NULL" THEN FALSE
        ELSE IF cond.sql = "json_extract(metadata, ?) = json(?)"
            THEN v[1] = "TEXT" /\ v[2] = JsonText(cond.param[1])
        ELSE IF cond.sql = "CAST(json_extract(metadata, ?) AS REAL) = ?"
            THEN (IF v[1] = "TEXT" THEN TextToReal(v[2]) ELSE v[2]) = cond.param[1][2]
        ELSE v[1] = "TEXT" /\ v[2] = cond.param[1][2]

WhereHolds(metadata, where) == \A i \in DOMAIN where : CondHolds(metadata, where[i])

\* the elements of a set of rowids in ascending order
RECURSIVE Ascending(_)
Ascending(S) ==
    IF S = {} THEN <<>>
    ELSE LET m == CHOOSE x \in S : \A y \in S : x <= y
         IN  <<m>> \o Ascending(S \ {m})

\* (rowid, text, metadata, embedding) of rows_to_results
Result(db, rowid) ==
    <<rowid, db.rows[rowid].text, json_loads(db.rows[rowid].metadata),
      deserialize_f32(db.rows[rowid].emb)>>

\* SELECT COUNT(1) FROM {table} WHERE {where}
CountWhere(db, where) ==
    Cardinality({r \in DOMAIN db.rows : WhereHolds(db.rows[r].metadata, where)})

\* a page that ends at row number limit instead of offset + limit
SelectWhere_limit_as_end(db, where, limit, offset) ==
    LET hits == Ascending({r \in DOMAIN db.rows : WhereHolds(db.rows[r].metadata, where)})
        to == IF limit < Len(hits) THEN limit ELSE Len(hits)
        page == SubSeq(hits, offset + 1, to)
    IN  [i \in DOMAIN page |-> Result(db, page[i])]

\* SELECT ... WHERE {where} ORDER BY rowid ASC LIMIT ? OFFSET ?
SelectWhere(db, where, limit, offset) ==
    LET hits == Ascending({r \in DOMAIN db.rows : WhereHolds(db.rows[r].metadata, where)})
        to == IF offset + limit < Len(hits) THEN offset + limit ELSE Len(hits)
        page == SubSeq(hits, offset + 1, to)
    IN  [i \in DOMAIN page |-> Result(db, page[i])]

\* the distance vec0 reports between the query and a stored vector
Abs(x) == IF x < 0 THEN -x ELSE x

RECURSIVE SumTo(_, _)
SumTo(f, n) == IF n = 0 THEN 0 ELSE f[n] + SumTo(f, n - 1)

Distance(query, blob) ==
    LET q == deserialize_f32(query)
        v == deserialize_f32(blob)
    IN  SumTo([i \in DOMAIN q |-> Abs(q[i] - v[i])], Len(q))

\* v.text_embedding MATCH ? AND k = ? ORDER BY v.distance, joined with the
\* record table: every list of k nearest index rows in order of distance
\* (rows at equal distance come in an order the engine chooses)
KnnResults(db, query, k) ==
    LET ids == DOMAIN db.index
        n == IF k < Cardinality(ids) THEN k ELSE Cardinality(ids)
        d(r) == Distance(query, db.index[r])
        lists == {s \in [1..n -> ids] :
                    /\ \A i, j \in 1..n : i < j => s[i] # s[j] /\ d(s[i]) <= d(s[j])
                    /\ \A r \in ids \ Range(s) : \A i \in 1..n : d(s[i]) <= d(r)}
        joined(s) == SelectSeq(s, LAMBDA r : r \in DOMAIN db.rows)
    IN  {[i \in DOMAIN joined(s) |->
            <<joined(s)[i], db.rows[joined(s)[i]].text, d(joined(s)[i])>>] : s \in lists}

\* cursor.executemany: one INSERT per parameter tuple, stopping at the first
\* that fails; the rows inserted before it stay in the open transaction
RECURSIVE executemany(_, _, _)
executemany(db, data, n) ==
    IF data = <<>> THEN [db |-> db, err |-> "none", rowcount |-> n, tried |-> n]
    ELSE LET r == InsertStmt(db, Head(data))
         IN  IF r.err # "none"
                THEN [db |-> r.db, err |-> r.err, rowcount |-> n, tried |-> n + 1]
             ELSE executemany(r.db, Tail(data), n + 1)

\* ------------------------------------------------------------ the client
\* table            self.table
\* closed           self.connection has been closed
\* work, comm       the database as the connection sees it / as committed
\* _in_transaction  the deferred-commit flag
\* scopes           the transaction() scopes whose body is running, outermost
\*                  first, each with what it has seen so far
\* last             the call that finished last: its name, what of its
\*                  arguments the properties read, the error it raised
\*                  ("none" when it returned), its return value, whether it
\*                  passed a statement to the engine, and the numbers of
\*                  commit() and rollback() calls it made on the connection
\* calls            the number of calls made on the client so far
\* _pool            the client was constructed with pool=..., its connection
\*                  being the one the pool keeps for the thread
\* deleted_rowids   the rowids for which delete has returned True so far
VARIABLES table, closed, work, comm, _in_transaction, scopes, last, calls, _pool,
          deleted_rowids

vars == <<table, closed, work, comm, _in_transaction, scopes, last, calls, _pool,
          deleted_rowids>>

Call(op, args, err, ret, stmts, commits, rollbacks) ==
    [op |-> op, args |-> args, err |-> err, ret |-> ret, executed |-> stmts > 0,
     commits |-> commits, rollbacks |-> rollbacks]

\* what the open scopes have seen: pure, only the five mutating calls and
\* reads were made in it and it is not nested; onlyadd, every call in it was
\* an add that returned; added, the rows those adds inserted
Seen(kind, n) ==
    [i \in DOMAIN scopes |->
        LET pure == scopes[i].pure /\ kind # "other"
            onlyadd == pure /\ scopes[i].onlyadd /\ kind = "add"
        IN  [pure |-> pure,
             entry |-> IF pure THEN scopes[i].entry ELSE EmptyFn,
             onlyadd |-> onlyadd,
             added |-> IF onlyadd THEN scopes[i].added + n ELSE 0]]

Init ==
    /\ table \in TableNames
    /\ closed = FALSE
    /\ work = EmptyDb
    /\ comm = EmptyDb
    /\ _in_transaction = FALSE
    /\ scopes = <<>>
    /\ last = Call("__init__", <<>>, "none", None, 0, 0, 0)
    /\ calls = 0
    /\ _pool \in BOOLEAN
    /\ deleted_rowids = {}

\* CREATE TABLE / CREATE VIRTUAL TABLE that replace what exists
CreateTables_rebinding(db, dim, distance) ==
    [db EXCEPT !.base = TRUE,
               !.vec = TRUE,
               !.dim = dim,
               !.metric = distance]

\* the two CREATE ... IF NOT EXISTS statements for the tables: the vec0 table
\* keeps the dimension and the metric it was first created with
CreateTables(db, dim, distance) ==
    [db EXCEPT !.base = TRUE,
               !.vec = TRUE,
               !.dim = IF db.vec THEN @ ELSE dim,
               !.metric = IF db.vec THEN @ ELSE distance]

\* create_table without its AFTER UPDATE trigger
CreateTriggers_no_update_trigger(db) ==
    [db EXCEPT !.trig = @ \cup {"embed_text", "delete_row"}]

CreateTriggers(db) ==
    [db EXCEPT !.trig = @ \cup {"embed_text", "update_text_embedding", "delete_row"}]

\* create_table that checks the dimension after it has created the tables
create_table_late_validation(dim, distance) ==
    LET e1 == validate_table_name(table)
        e2 == validate_dimension(dim)
    IN  IF e1 # "none" THEN
            /\ last' = Call("create_table", [dim |-> dim, distance |-> distance], e1, None, 0, 0, 0)
            /\ UNCHANGED <<table, closed, work, comm, _in_transaction, scopes>>
        ELSE IF closed THEN
            /\ last' = Call("create_table", [dim |-> dim, distance |-> distance], "ProgrammingError", None, 1, 0, 0)
            /\ scopes' = Seen("other", 0)
            /\ UNCHANGED <<table, closed, work, comm, _in_transaction>>
        ELSE IF e2 # "none" THEN
            /\ work' = CreateTables(work, dim, distance)
            /\ last' = Call("create_table", [dim |-> dim, distance |-> distance], e2, None, 2, 0, 0)
            /\ scopes' = Seen("other", 0)
            /\ UNCHANGED <<table, closed, comm, _in_transaction>>
        ELSE
            /\ work' = CreateTriggers(CreateTables(work, dim, distance))
            /\ comm' = work'
            /\ last' = Call("create_table", [dim |-> dim, distance |-> distance], "none", None, 5, 1, 0)
            /\ scopes' = Seen("other", 0)
            /\ UNCHANGED <<table, closed, _in_transaction>>

create_table(dim, distance) ==
    LET e1 == validate_table_name(table)
        e2 == validate_dimension(dim)
    IN  IF e1 # "none" THEN
            /\ last' = Call("create_table", [dim |-> dim, distance |-> distance], e1, None, 0, 0, 0)
            /\ UNCHANGED <<table, closed, work, comm, _in_transaction, scopes>>
        ELSE IF e2 # "none" THEN
            /\ last' = Call("create_table", [dim |-> dim, distance |-> distance], e2, None, 0, 0, 0)
            /\ UNCHANGED <<table, closed, work, comm, _in_transaction, scopes>>
        ELSE IF closed THEN
            /\ last' = Call("create_table", [dim |-> dim, distance |-> distance], "ProgrammingError", None, 1, 0, 0)
            /\ scopes' = Seen("other", 0)
            /\ UNCHANGED <<table, closed, work, comm, _in_transaction>>
        ELSE
            /\ work' = CreateTriggers(CreateTables(work, dim, distance))
            /\ comm' = work'
            /\ last' = Call("create_table", [dim |-> dim, distance |-> distance], "none", None, 5, 1, 0)
            /\ scopes' = Seen("other", 0)
            /\ UNCHANGED <<table, closed, _in_transaction>>

\* some vector of a call differs in length from the dimension the table is
\* bound to
BadDim(embeddings) ==
    /\ work.vec
    /\ \E i \in DOMAIN embeddings :
          validate_embedding_dimension(embeddings[i], work.dim) # "none"

\* what a failed statement makes the method raise
Raised(err, wrapped) ==
    IF err = "no such table" /\ wrapped THEN "TableNotFoundError"
    ELSE "OperationalError"

\* if not self._in_transaction: self.connection.commit() -- the committed
\* database after it, and the number of commit() calls it makes
Commit_ignoring_flag(db) == db

Commit(db) == IF _in_transaction THEN comm ELSE db

Commits == IF _in_transaction THEN 0 ELSE 1

add(texts, embeddings, metadata) ==
    LET e1 == validate_embeddings_match(texts, embeddings, metadata)
        mds == IF metadata = NoneDicts THEN [i \in DOMAIN texts |-> EmptyDict] ELSE metadata
        AddArgs == [texts |-> texts, baddim |-> BadDim(embeddings)]
        data_input == [i \in DOMAIN texts |->
                          [text |-> texts[i], metadata |-> json_dumps(mds[i]),
                           emb |-> serialize_f32(embeddings[i])]]
    IN  IF e1 # "none" THEN
            /\ last' = Call("add", AddArgs, e1, <<>>, 0, 0, 0)
            /\ scopes' = Seen("mut", 0)
            /\ UNCHANGED <<table, closed, work, comm, _in_transaction>>
        ELSE IF closed THEN
            /\ last' = Call("add", AddArgs, "ProgrammingError", <<>>, 0, 0, 0)
            /\ scopes' = Seen("mut", 0)
            /\ UNCHANGED <<table, closed, work, comm, _in_transaction>>
        ELSE IF ~SqlParses(table) THEN
            /\ last' = Call("add", AddArgs, "OperationalError", <<>>, 1, 0, 0)
            /\ scopes' = Seen("mut", 0)
            /\ UNCHANGED <<table, closed, work, comm, _in_transaction>>
        ELSE IF ~work.base THEN
            /\ last' = Call("add", AddArgs, Raised("no such table", TRUE), <<>>, 1, 0, 0)
            /\ scopes' = Seen("mut", 0)
            /\ UNCHANGED <<table, closed, work, comm, _in_transaction>>
        ELSE
            LET max_before == MaxOf(DOMAIN work.rows)
                r == executemany(work, data_input, 0)
                rowids == [i \in 1..Len(texts) |-> max_before + i]
            IN  IF r.err # "none" THEN
                    /\ work' = r.db
                    /\ last' = Call("add", AddArgs, Raised(r.err, TRUE), <<>>,
                                    1 + r.tried, 0, 0)
                    /\ scopes' = Seen("mut", r.rowcount)
                    /\ UNCHANGED <<table, closed, comm, _in_transaction>>
                ELSE
                    /\ work' = r.db
                    /\ comm' = Commit(r.db)
                    /\ last' = Call("add", AddArgs, "none", rowids, 1 + r.tried,
                                    Commits, 0)
                    /\ scopes' = Seen("add", r.rowcount)
                    /\ UNCHANGED <<table, closed, _in_transaction>>

\* update(rowid, text=..., embedding=...): None leaves the field alone
\* (metadata is always left at None)
update(rowid, text, embedding) ==
    LET sets == (IF text # None THEN {"text"} ELSE {})
                    \cup (IF embedding # NoneVec THEN {"text_embedding"} ELSE {})
        blob == IF embedding = NoneVec THEN NoneVec ELSE serialize_f32(embedding)
        r == UpdateStmt(work, rowid, text, blob)
        UpdArgs == [n |-> Cardinality(sets),
                    baddim |-> embedding # NoneVec /\ BadDim(<<embedding>>)]
    IN  IF sets = {} THEN
            /\ last' = Call("update", UpdArgs, "none", FALSE, 0, 0, 0)
            /\ scopes' = Seen("mut", 0)
            /\ UNCHANGED <<table, closed, work, comm, _in_transaction>>
        ELSE IF closed THEN
            /\ last' = Call("update", UpdArgs, "ProgrammingError",
                            FALSE, 0, 0, 0)
            /\ scopes' = Seen("mut", 0)
            /\ UNCHANGED <<table, closed, work, comm, _in_transaction>>
        ELSE IF ~SqlParses(table) \/ r.err # "none" THEN
            /\ last' = Call("update", UpdArgs,
                            Raised(r.err, FALSE), FALSE, 1, 0, 0)
            /\ scopes' = Seen("mut", 0)
            /\ UNCHANGED <<table, closed, work, comm, _in_transaction>>
        ELSE
            /\ work' = r.db
            /\ comm' = Commit(r.db)
            /\ last' = Call("update", UpdArgs, "none",
                            r.rowcount > 0, 1, Commits, 0)
            /\ scopes' = Seen("mut", 0)
            /\ UNCHANGED <<table, closed, _in_transaction>>

\* an update_many that counts its statements, not the rows they changed
RECURSIVE update_loop_counting_statements(_, _, _, _)
update_loop_counting_statements(db, updates, updated_count, stmts) ==
    IF updates = <<>>
        THEN [db |-> db, err |-> "none", rowcount |-> updated_count, tried |-> stmts]
    ELSE LET u == Head(updates)
             blob == IF u[3] = NoneVec THEN NoneVec ELSE serialize_f32(u[3])
             r == UpdateStmt(db, u[1], u[2], blob)
         IN  IF u[2] = None /\ u[3] = NoneVec
                THEN update_loop_counting_statements(db, Tail(updates), updated_count,
                                                     stmts)
             ELSE IF r.err # "none"
                THEN [db |-> r.db, err |-> r.err, rowcount |-> updated_count,
                      tried |-> stmts + 1]
             ELSE update_loop_counting_statements(r.db, Tail(updates),
                                                  updated_count + 1, stmts + 1)

\* the loop of update_many over (rowid, text, embedding) tuples: entries with
\* no field execute nothing; the first failing statement ends the loop
RECURSIVE update_loop(_, _, _, _)
update_loop(db, updates, updated_count, stmts) ==
    IF updates = <<>>
        THEN [db |-> db, err |-> "none", rowcount |-> updated_count, tried |-> stmts]
    ELSE LET u == Head(updates)
             blob == IF u[3] = NoneVec THEN NoneVec ELSE serialize_f32(u[3])
             r == UpdateStmt(db, u[1], u[2], blob)
         IN  IF u[2] = None /\ u[3] = NoneVec
                THEN update_loop(db, Tail(updates), updated_count, stmts)
             ELSE IF r.err # "none"
                THEN [db |-> r.db, err |-> r.err, rowcount |-> updated_count,
                      tried |-> stmts + 1]
             ELSE update_loop(r.db, Tail(updates), updated_count + r.rowcount,
                              stmts + 1)

update_many(updates) ==
    LET r == update_loop(work, updates, 0, 0)
        UpdArgs == [n |-> Len(updates),
                    baddim |-> \E i \in DOMAIN updates :
                                  updates[i][3] # NoneVec /\ BadDim(<<updates[i][3]>>)]
    IN  IF updates = <<>> THEN
            /\ last' = Call("update_many", UpdArgs, "none", 0, 0, 0, 0)
            /\ scopes' = Seen("mut", 0)
            /\ UNCHANGED <<table, closed, work, comm, _in_transaction>>
        ELSE IF closed THEN
            /\ last' = Call("update_many", UpdArgs, "ProgrammingError", 0, 0, 0, 0)
            /\ scopes' = Seen("mut", 0)
            /\ UNCHANGED <<table, closed, work, comm, _in_transaction>>
        ELSE IF r.tried > 0 /\ ~SqlParses(table) THEN
            /\ last' = Call("update_many", UpdArgs, "OperationalError", 0, 1, 0, 0)
            /\ scopes' = Seen("mut", 0)
            /\ UNCHANGED <<table, closed, work, comm, _in_transaction>>
        ELSE IF r.err # "none" THEN
            /\ work' = r.db
            /\ last' = Call("update_many", UpdArgs, Raised(r.err, FALSE), 0,
                            r.tried, 0, 0)
            /\ scopes' = Seen("mut", 0)
            /\ UNCHANGED <<table, closed, comm, _in_transaction>>
        ELSE
            /\ work' = r.db
            /\ comm' = Commit(r.db)
            /\ last' = Call("update_many", UpdArgs, "none", r.rowcount, r.tried,
                            Commits, 0)
            /\ scopes' = Seen("mut", 0)
            /\ UNCHANGED <<table, closed, _in_transaction>>

delete(rowid) ==
    LET r == DeleteStmt(work, <<rowid>>)
    IN  IF closed THEN
            /\ last' = Call("delete", [rowid |-> rowid], "ProgrammingError", FALSE, 0, 0, 0)
            /\ scopes' = Seen("mut", 0)
            /\ UNCHANGED <<table, closed, work, comm, _in_transaction>>
        ELSE IF ~SqlParses(table) \/ r.err # "none" THEN
            /\ last' = Call("delete", [rowid |-> rowid], Raised(r.err, FALSE), FALSE, 1, 0, 0)
            /\ scopes' = Seen("mut", 0)
            /\ UNCHANGED <<table, closed, work, comm, _in_transaction>>
        ELSE
            /\ work' = r.db
            /\ comm' = Commit(r.db)
            /\ last' = Call("delete", [rowid |-> rowid], "none", r.rowcount > 0, 1, Commits, 0)
            /\ scopes' = Seen("mut", 0)
            /\ UNCHANGED <<table, closed, _in_transaction>>

\* a delete_many that stops after its first chunk
delete_loop_first_chunk_only(db, rowids, deleted_count, stmts) ==
    IF rowids = <<>>
        THEN [db |-> db, err |-> "none", rowcount |-> deleted_count, tried |-> stmts]
    ELSE LET n == IF Len(rowids) < chunk_size THEN Len(rowids) ELSE chunk_size
             r == DeleteStmt(db, SubSeq(rowids, 1, n))
         IN  [db |-> r.db, err |-> r.err, rowcount |-> deleted_count + r.rowcount,
              tried |-> stmts + 1]

\* the loop of delete_many: one DELETE per chunk of chunk_size rowids
RECURSIVE delete_loop(_, _, _, _)
delete_loop(db, rowids, deleted_count, stmts) ==
    IF rowids = <<>>
        THEN [db |-> db, err |-> "none", rowcount |-> deleted_count, tried |-> stmts]
    ELSE LET n == IF Len(rowids) < chunk_size THEN Len(rowids) ELSE chunk_size
             chunk == SubSeq(rowids, 1, n)
             r == DeleteStmt(db, chunk)
         IN  IF r.err # "none"
                THEN [db |-> r.db, err |-> r.err, rowcount |-> deleted_count,
                      tried |-> stmts + 1]
             ELSE delete_loop(r.db, SubSeq(rowids, n + 1, Len(rowids)),
                              deleted_count + r.rowcount, stmts + 1)

delete_many(rowids) ==
    LET r == delete_loop(work, rowids, 0, 0)
    IN  IF rowids = <<>> THEN
            /\ last' = Call("delete_many", [n |-> Len(rowids)], "none", 0, 0, 0, 0)
            /\ scopes' = Seen("mut", 0)
            /\ UNCHANGED <<table, closed, work, comm, _in_transaction>>
        ELSE IF closed THEN
            /\ last' = Call("delete_many", [n |-> Len(rowids)], "ProgrammingError", 0, 0, 0, 0)
            /\ scopes' = Seen("mut", 0)
            /\ UNCHANGED <<table, closed, work, comm, _in_transaction>>
        ELSE IF ~SqlParses(table) \/ r.err # "none" THEN
            /\ last' = Call("delete_many", [n |-> Len(rowids)], Raised(r.err, FALSE), 0, 1, 0, 0)
            /\ scopes' = Seen("mut", 0)
            /\ UNCHANGED <<table, closed, work, comm, _in_transaction>>
        ELSE
            /\ work' = r.db
            /\ comm' = Commit(r.db)
            /\ last' = Call("delete_many", [n |-> Len(rowids)], "none", r.rowcount, r.tried,
                            Commits, 0)
            /\ scopes' = Seen("mut", 0)
            /\ UNCHANGED <<table, closed, _in_transaction>>

\* a call that changes nothing: what it raised or returned
Answer(op, args, err, ret, stmts) ==
    /\ last' = Call(op, args, err, ret, stmts, 0, 0)
    /\ UNCHANGED <<table, closed, work, comm, _in_transaction, scopes>>

similarity_search(embedding, top_k) ==
    LET e1 == validate_top_k(top_k)
        query == serialize_f32(embedding)
        SearchArgs == [baddim |-> BadDim(<<embedding>>)]
    IN  IF e1 # "none" THEN Answer("similarity_search", SearchArgs, e1, <<>>, 0)
        ELSE IF closed THEN Answer("similarity_search", SearchArgs, "ProgrammingError", <<>>, 0)
        ELSE IF ~SqlParses(table) THEN
            Answer("similarity_search", SearchArgs, "OperationalError", <<>>, 1)
        ELSE IF ~work.base \/ ~work.vec THEN
            Answer("similarity_search", SearchArgs, Raised("no such table", TRUE), <<>>, 1)
        ELSE IF ~Vec0Accepts(work, query) THEN
            Answer("similarity_search", SearchArgs, Raised("dimension mismatch", TRUE), <<>>, 1)
        ELSE \E results \in KnnResults(work, query, top_k) :
            Answer("similarity_search", SearchArgs, "none", results, 1)

\* the nearest top_k rows first, the metadata conditions on those afterwards
similarity_search_with_filter(embedding, filters, top_k) ==
    LET e1 == validate_top_k(top_k)
        e2 == validate_metadata_filters(filters)
        where == build_metadata_where_clause(filters)
        query == serialize_f32(embedding)
        SearchArgs == [baddim |-> BadDim(<<embedding>>)]
        op == "similarity_search_with_filter"
    IN  IF e1 # "none" THEN Answer(op, SearchArgs, e1, <<>>, 0)
        ELSE IF e2 # "none" THEN Answer(op, SearchArgs, e2, <<>>, 0)
        ELSE IF closed THEN Answer(op, SearchArgs, "ProgrammingError", <<>>, 0)
        ELSE IF ~SqlParses(table) THEN Answer(op, SearchArgs, "OperationalError", <<>>, 1)
        ELSE IF ~work.base \/ ~work.vec THEN
            Answer(op, SearchArgs, Raised("no such table", TRUE), <<>>, 1)
        ELSE IF ~Vec0Accepts(work, query) THEN
            Answer(op, SearchArgs, Raised("dimension mismatch", TRUE), <<>>, 1)
        ELSE \E sim \in KnnResults(work, query, top_k) :
            Answer(op, SearchArgs, "none",
                   SelectSeq(sim, LAMBDA row :
                                 WhereHolds(work.rows[row[1]].metadata, where)),
                   1)

\* get(rowid) and count() on an open connection with the record table: what
\* they return, without a change to any state
get(rowid) == IF rowid \in DOMAIN work.rows THEN Result(work, rowid) ELSE None

count == Cardinality(DOMAIN work.rows)

\* filter_by_metadata without its call of validate_metadata_filters
filter_by_metadata_unvalidated(filters, limit, offset) ==
    LET e2 == validate_limit(limit)
        e3 == validate_offset(offset)
        where == build_metadata_where_clause(filters)
    IN  IF e2 # "none" THEN Answer("filter_by_metadata", <<>>, e2, <<>>, 0)
        ELSE IF e3 # "none" THEN Answer("filter_by_metadata", <<>>, e3, <<>>, 0)
        ELSE IF closed THEN Answer("filter_by_metadata", <<>>, "ProgrammingError", <<>>, 0)
        ELSE IF ~SqlParses(table) THEN
            Answer("filter_by_metadata", <<>>, "OperationalError", <<>>, 1)
        ELSE IF ~work.base THEN
            Answer("filter_by_metadata", <<>>, Raised("no such table", FALSE), <<>>, 1)
        ELSE Answer("filter_by_metadata", <<>>, "none",
                    SelectWhere(work, where, limit, offset), 1)

filter_by_metadata(filters, limit, offset) ==
    LET e1 == validate_metadata_filters(filters)
        e2 == validate_limit(limit)
        e3 == validate_offset(offset)
        where == build_metadata_where_clause(filters)
    IN  IF e1 # "none" THEN Answer("filter_by_metadata", <<>>, e1, <<>>, 0)
        ELSE IF e2 # "none" THEN Answer("filter_by_metadata", <<>>, e2, <<>>, 0)
        ELSE IF e3 # "none" THEN Answer("filter_by_metadata", <<>>, e3, <<>>, 0)
        ELSE IF closed THEN Answer("filter_by_metadata", <<>>, "ProgrammingError", <<>>, 0)
        ELSE IF ~SqlParses(table) THEN
            Answer("filter_by_metadata", <<>>, "OperationalError", <<>>, 1)
        ELSE IF ~work.base THEN
            Answer("filter_by_metadata", <<>>, Raised("no such table", FALSE), <<>>, 1)
        ELSE Answer("filter_by_metadata", <<>>, "none",
                    SelectWhere(work, where, limit, offset), 1)

count_by_metadata(filters) ==
    LET e1 == validate_metadata_filters(filters)
        where == build_metadata_where_clause(filters)
    IN  IF e1 # "none" THEN Answer("count_by_metadata", <<>>, e1, 0, 0)
        ELSE IF closed THEN Answer("count_by_metadata", <<>>, "ProgrammingError", 0, 0)
        ELSE IF ~SqlParses(table) THEN
            Answer("count_by_metadata", <<>>, "OperationalError", 0, 1)
        ELSE IF ~work.base THEN
            Answer("count_by_metadata", <<>>, Raised("no such table", FALSE), 0, 1)
        ELSE Answer("count_by_metadata", <<>>, "none", CountWhere(work, where), 1)

\* ------------------------------------------------------------ io.py
\* A file is the list of its records, each the rowid it carries; every record
\* has the text "a", no metadata and the embedding [0.0].
\* The loop of import_from_json and import_from_csv over the records left,
\* with the number of texts collected so far (pending), the count so far
\* (imported) and the number of client.add calls so far (adds): a record whose
\* rowid client.get finds is skipped, a batch that is full goes to client.add,
\* and what is left at the end goes to client.add too
RECURSIVE import_loop(_, _, _, _, _, _, _)
import_loop(db, records, pending, imported, adds, skip_duplicates, size) ==
    LET data_input == [i \in 1..pending |->
                          [text |-> "a", metadata |-> json_dumps(EmptyDict),
                           emb |-> serialize_f32(<<0>>)]]
        r == executemany(db, data_input, 0)
    IN  IF records = <<>> /\ pending = 0 THEN
            [db |-> db, err |-> "none", count |-> imported, adds |-> adds]
        ELSE IF records = <<>> \/ (pending >= size /\ pending > 0) THEN
            \* client.add(texts=texts, ...); count += len(texts)
            IF r.err # "none"
                THEN [db |-> r.db, err |-> Raised(r.err, TRUE), count |-> imported,
                      adds |-> adds]
            ELSE import_loop(r.db, records, 0, imported + pending, adds + 1,
                             skip_duplicates, size)
        ELSE IF skip_duplicates /\ Head(records) \in DOMAIN db.rows THEN
            import_loop(db, Tail(records), pending, imported, adds, skip_duplicates, size)
        ELSE
            import_loop(db, Tail(records), pending + 1, imported, adds,
                        skip_duplicates, size)

\* import_from_json / import_from_csv on a file of records that all have an
\* embedding, on an open connection whose table exists: every client.add of
\* the loop commits unless a scope is open
import_records(op, records, skip_duplicates, size) ==
    LET r == import_loop(work, records, 0, 0, 0, skip_duplicates, size)
        ImportArgs == [records |-> records, skip_duplicates |-> skip_duplicates,
                       batch_size |-> size]
    IN  /\ work' = r.db
        /\ comm' = IF r.adds > 0 THEN Commit(r.db) ELSE comm
        /\ last' = Call(op, ImportArgs, r.err, r.count, r.count, r.adds * Commits, 0)
        /\ scopes' = Seen("other", 0)
        /\ UNCHANGED <<table, closed, _in_transaction>>

import_from_json(records, skip_duplicates, size) ==
    /\ ~closed /\ work.base
    /\ import_records("import_from_json", records, skip_duplicates, size)

import_from_csv(records, skip_duplicates, size) ==
    /\ ~closed /\ work.base
    /\ import_records("import_from_csv", records, skip_duplicates, size)

\* transaction(): the code before the yield
transaction_enter ==
    /\ Len(scopes) < MaxDepth
    /\ _in_transaction' = TRUE
    /\ scopes' = Append(Seen("other", 0),
                        IF scopes = <<>>
                        THEN [pure |-> TRUE, entry |-> work.rows, onlyadd |-> TRUE,
                              added |-> 0]
                        ELSE [pure |-> FALSE, entry |-> EmptyFn, onlyadd |-> FALSE,
                              added |-> 0])
    /\ last' = Call("transaction.enter", <<>>, "none", None, 0, 0, 0)
    /\ UNCHANGED <<table, closed, work, comm>>

\* what the body of a scope can end with: it returns, it raises an Exception,
\* or it raises a BaseException that is not an Exception (KeyboardInterrupt,
\* SystemExit, GeneratorExit)
BodyEnds == {"returns", "Exception", "BaseException"}

\* transaction(): the code after the yield.  commit() and rollback() raise
\* ProgrammingError on a closed connection.  What the exit does: the error it
\* raises, its commit() and rollback() calls, the database and the flag after
exit_outcome(body) ==
    IF body = "returns" /\ ~closed THEN
        \* try: yield; commit()
        [err |-> "none", commits |-> 1, rollbacks |-> 0, work |-> work,
         comm |-> work, flag |-> FALSE]
    ELSE IF body = "returns" THEN
        \* commit() raises; except Exception: rollback() raises
        [err |-> "ProgrammingError", commits |-> 1, rollbacks |-> 1, work |-> work,
         comm |-> comm, flag |-> FALSE]
    ELSE IF body = "Exception" /\ ~closed THEN
        \* except Exception: rollback(); raise
        [err |-> "Exception", commits |-> 0, rollbacks |-> 1, work |-> comm,
         comm |-> comm, flag |-> FALSE]
    ELSE IF body = "Exception" THEN
        \* except Exception: rollback() raises
        [err |-> "ProgrammingError", commits |-> 0, rollbacks |-> 1, work |-> work,
         comm |-> comm, flag |-> FALSE]
    ELSE
        \* not caught by except Exception; finally
        [err |-> "BaseException", commits |-> 0, rollbacks |-> 0, work |-> work,
         comm |-> comm, flag |-> FALSE]

\* an exit that clears the flag after the commit and after the rollback
\* instead of in a finally block
transaction_exit_no_finally(body) ==
    /\ scopes # <<>>
    /\ LET scope == scopes[Len(scopes)]
           out == exit_outcome(body)
       IN  /\ work' = out.work
           /\ comm' = out.comm
           /\ _in_transaction' = (out.err = "ProgrammingError")
           /\ last' = Call("transaction.exit", [body |-> body, scope |-> scope],
                           out.err, None, 0, out.commits, out.rollbacks)
    /\ scopes' = SubSeq(scopes, 1, Len(scopes) - 1)
    /\ UNCHANGED <<table, closed>>

\* the exit of the innermost open scope
transaction_exit(body) ==
    /\ scopes # <<>>
    /\ LET scope == scopes[Len(scopes)]
           out == exit_outcome(body)
       IN  /\ work' = out.work
           /\ comm' = out.comm
           /\ _in_transaction' = out.flag
           /\ last' = Call("transaction.exit", [body |-> body, scope |-> scope],
                           out.err, None, 0, out.commits, out.rollbacks)
    /\ scopes' = SubSeq(scopes, 1, Len(scopes) - 1)
    /\ UNCHANGED <<table, closed>>

\* a close() that closes the connection whoever owns it
close_ignoring_pool ==
    /\ closed' = TRUE
    /\ work' = IF closed THEN work ELSE comm
    /\ scopes' = Seen("other", 0)
    /\ last' = Call("close", <<>>, "none", None, 0, 0, 0)
    /\ UNCHANGED <<table, comm, _in_transaction>>

\* close(): a client of a pool hands its connection to return_connection,
\* which keeps it; a client that owns its connection closes it, and sqlite
\* discards the open transaction of a connection that is closed
close ==
    /\ closed' = IF _pool THEN closed ELSE TRUE
    /\ work' = IF closed \/ _pool THEN work ELSE comm
    /\ scopes' = Seen("other", 0)
    /\ last' = Call("close", <<>>, "none", None, 0, 0, 0)
    /\ UNCHANGED <<table, comm, _in_transaction>>

\* SQLiteVecClient(table, ...) once more, for the same table and database,
\* while no scope of the previous client is running: with pool=... it gets
\* the connection the pool keeps for the thread, otherwise (here: after the
\* previous client has closed its own) a new connection, which sees what
\* is committed
client_init ==
    /\ scopes = <<>>
    /\ _pool \/ closed
    /\ closed' = IF _pool THEN closed ELSE FALSE
    /\ work' = IF _pool THEN work ELSE comm
    /\ _in_transaction' = FALSE
    /\ last' = Call("__init__", <<>>, "none", None, 0, 0, 0)
    /\ UNCHANGED <<table, comm, scopes>>

VARIABLES _pool_size, _created, _all_connections, _local, _lock, pc, conn, made,
          open, torn, plast

poolvars == <<_pool_size, _created, _all_connections, _local, _lock, pc, conn,
              made, open, torn, plast>>

\* ------------------------------------------- validate_table_name on its own
\* name is the string passed to validate_table_name and outcome what the call
\* raised: "unset" before the call, "none" when it returned
VARIABLES name, outcome

valvars == <<name, outcome>>

\* ------------------------------------------------- the generator of get_all
\* gpc is the position of the generator get_all returned: "idle" when there is
\* none, "start" before its first line has run, "fetch" before the SELECT of
\* the next page, "yield" while records of the page are handed out, "done"
\* after the break and "raised" after an error; batch_size, last_rowid and
\* results are its locals (results: the records of the page not yet handed
\* out) and yielded the records the consumer has received
VARIABLES gpc, batch_size, last_rowid, results, yielded

genvars == <<gpc, batch_size, last_rowid, results, yielded>>

NoGetAll ==
    /\ gpc = "idle"
    /\ batch_size = 0
    /\ last_rowid = 0
    /\ results = <<>>
    /\ yielded = <<>>

\* a page that starts at the last rowid handed out instead of after it
SelectAfter_inclusive(db, after, limit) ==
    LET hits == Ascending({r \in DOMAIN db.rows : r >= after})
        to == IF limit < Len(hits) THEN limit ELSE Len(hits)
        page == SubSeq(hits, 1, to)
    IN  [i \in DOMAIN page |-> Result(db, page[i])]

\* SELECT ... WHERE rowid > ? ORDER BY rowid ASC LIMIT ?, through
\* rows_to_results
SelectAfter(db, after, limit) ==
    LET hits == Ascending({r \in DOMAIN db.rows : r > after})
        to == IF limit < Len(hits) THEN limit ELSE Len(hits)
        page == SubSeq(hits, 1, to)
    IN  [i \in DOMAIN page |-> Result(db, page[i])]

\* get_all(batch_size): the call makes the generator and runs none of its code
get_all(size) ==
    /\ gpc \in {"idle", "done", "raised"}
    /\ gpc' = "start"
    /\ batch_size' = size
    /\ last_rowid' = 0
    /\ results' = <<>>
    /\ yielded' = <<>>

\* the lines before the loop: validate_limit, last_rowid = 0, cursor()
get_all_start ==
    /\ gpc = "start"
    /\ gpc' = IF validate_limit(batch_size) # "none" \/ closed THEN "raised" ELSE "fetch"
    /\ last_rowid' = 0
    /\ UNCHANGED <<batch_size, results, yielded>>

\* cursor.execute, fetchall, "if not rows: break", rows_to_results
get_all_fetch ==
    /\ gpc = "fetch"
    /\ IF closed \/ ~SqlParses(table) \/ ~work.base THEN
            /\ gpc' = "raised"
            /\ UNCHANGED results
       ELSE LET rows == SelectAfter(work, last_rowid, batch_size)
            IN  /\ gpc' = IF rows = <<>> THEN "done" ELSE "yield"
                /\ results' = rows
    /\ UNCHANGED <<batch_size, last_rowid, yielded>>

\* yield from results, one record for each step, and after the last one
\* last_rowid = results[-1][0]
get_all_yield ==
    /\ gpc = "yield"
    /\ yielded' = Append(yielded, Head(results))
    /\ results' = Tail(results)
    /\ IF Tail(results) = <<>>
          THEN gpc' = "fetch" /\ last_rowid' = Head(results)[1]
          ELSE UNCHANGED <<gpc, last_rowid>>
    /\ UNCHANGED batch_size

\* --------------------------------- serialize_f32 and deserialize_f32 on their own
\* vec is the vector passed to serialize_f32, packed the blob it returned,
\* unpacked what deserialize_f32 made of the blob, and upc how far the two
\* calls have come: "unset", "packed", "unpacked"
VARIABLES vec, packed, unpacked, upc

utilvars == <<vec, packed, unpacked, upc>>

NoSerializeCall ==
    /\ vec = <<>>
    /\ packed = <<>>
    /\ unpacked = <<>>
    /\ upc = "unset"

serialize_f32_call ==
    /\ upc = "unset"
    /\ packed' = serialize_f32(vec)
    /\ upc' = "packed"
    /\ UNCHANGED <<vec, unpacked>>

deserialize_f32_call ==
    /\ upc = "packed"
    /\ unpacked' = deserialize_f32(packed)
    /\ upc' = "unpacked"
    /\ UNCHANGED <<vec, packed>>

\* --------------------------------------------- a second client, same pool
\* SQLiteVecClient(table, pool=pool) constructed twice in one thread: both
\* objects hold the connection the pool keeps for the thread, and each has
\* an _in_transaction of its own.  The variables of the client section are
\* the fields of the client being called; other holds the name and the fields
\* of the client that is not.
VARIABLES other

sharevars == <<other>>

ClientNames == {"a", "b"}

NoOtherClient == other = [name |-> "b", _in_transaction |-> FALSE, scopes |-> <<>>]

\* the name of the client being called
current == CHOOSE n \in ClientNames : n # other.name

\* the caller turns to the other client object: its fields become the ones
\* the methods read and write, the connection stays the same
switch_client ==
    /\ other' = [name |-> current, _in_transaction |-> _in_transaction,
                 scopes |-> scopes]
    /\ _in_transaction' = other._in_transaction
    /\ scopes' = other.scopes
    /\ UNCHANGED <<table, closed, work, comm, last, calls, _pool, deleted_rowids>>

\* ------------------------------ build_metadata_where_clause on its own
\* bfilters is the mapping passed to build_metadata_where_clause, bsql and
\* bparams the text and the parameter list it returned, and bpc how far the
\* call has come: "unset", "built"
VARIABLES bfilters, bsql, bparams, bpc

buildvars == <<bfilters, bsql, bparams, bpc>>

NoBuildCall ==
    /\ bfilters = <<>>
    /\ bsql = <<>>
    /\ bparams = <<>>
    /\ bpc = "unset"

FilterMaps ==
    {f \in SeqsUpTo({"k", "n"} \X FilterValues, 2) :
        \A i, j \in DOMAIN f : i # j => f[i][1] # f[j][1]}

build_metadata_where_clause_call ==
    /\ bpc = "unset"
    /\ bsql' = where_sql(build_metadata_where_clause(bfilters))
    /\ bparams' = where_params(build_metadata_where_clause(bfilters))
    /\ bpc' = "built"
    /\ UNCHANGED bfilters

\* WHERE {where_clause}: the statement parses only if the text interpolated
\* after WHERE is an expression, which the empty text is not
WhereParses(sql) == sql # <<>>

\* ------------------------------- two clients, one connection each
\* Two clients of the same table, each on a connection of its own to the
\* same database file (journal_mode=WAL), each in a thread of its own.
\* file       the database as committed
\* wal        the database as the connection that holds the write lock sees it
\* writer     the client whose connection holds the write lock ("none": free)
\* apc        where each client stands in add: "idle", "read" (max_before
\*            has been fetched), "inserted" (executemany has returned)
\* add_n      the number of texts of each client's running call
\* max_before each client's local variable max_before
\* assigned   the rowids the engine gave the rows of each client's last insert
\* returned   the list each client's last finished add returned
\* overtaken  whether another connection committed an insert between the
\*            read and the insert of each client's last add
VARIABLES file, wal, writer, apc, add_n, max_before, assigned, returned, overtaken

racevars == <<file, wal, writer, apc, add_n, max_before, assigned, returned,
              overtaken>>

NoRace ==
    /\ file = EmptyDb
    /\ wal = EmptyDb
    /\ writer = "none"
    /\ apc = [c \in ClientNames |-> "idle"]
    /\ add_n = [c \in ClientNames |-> 0]
    /\ max_before = [c \in ClientNames |-> 0]
    /\ assigned = [c \in ClientNames |-> {}]
    /\ returned = [c \in ClientNames |-> <<>>]
    /\ overtaken = [c \in ClientNames |-> FALSE]

\* list(range(max_before, max_before + len(texts)))
RowidRange_off_by_one(before, n) == [i \in 1..n |-> before + i - 1]

\* rowids = list(range(max_before + 1, max_before + len(texts) + 1))
RowidRange(before, n) == [i \in 1..n |-> before + i]

\* add, up to and including SELECT COALESCE(MAX(rowid), 0): the statement
\* reads what is committed, a connection never sees what another has not
\* committed
add_read(c, n) ==
    /\ apc[c] = "idle"
    /\ apc' = [apc EXCEPT ![c] = "read"]
    /\ add_n' = [add_n EXCEPT ![c] = n]
    /\ max_before' = [max_before EXCEPT ![c] = MaxOf(DOMAIN file.rows)]
    /\ overtaken' = [overtaken EXCEPT ![c] = FALSE]
    /\ UNCHANGED <<file, wal, writer, assigned, returned>>

\* add: cur.executemany(INSERT ...), which takes the write lock of the file
\* and waits while another connection holds it; every row carries the name
\* of its client as its text
add_insert(c) ==
    /\ apc[c] = "read"
    /\ writer = "none"
    /\ NextRowid(file) + add_n[c] - 1 <= MaxRowid + 1
    /\ LET data_input == [i \in 1..add_n[c] |->
                             [text |-> c, metadata |-> json_dumps(EmptyDict),
                              emb |-> serialize_f32(<<0>>)]]
           r == executemany(file, data_input, 0)
       IN  /\ wal' = r.db
           /\ assigned' = [assigned EXCEPT ![c] = DOMAIN r.db.rows \ DOMAIN file.rows]
    /\ writer' = c
    /\ apc' = [apc EXCEPT ![c] = "inserted"]
    /\ UNCHANGED <<file, add_n, max_before, returned, overtaken>>

\* add: the computation of rowids, connection.commit() and the return
add_commit(c) ==
    /\ apc[c] = "inserted"
    /\ file' = wal
    /\ writer' = "none"
    /\ returned' = [returned EXCEPT ![c] = RowidRange(max_before[c], add_n[c])]
    /\ overtaken' = [d \in ClientNames |->
                        IF d # c /\ apc[d] = "read" THEN TRUE ELSE overtaken[d]]
    /\ apc' = [apc EXCEPT ![c] = "idle"]
    /\ UNCHANGED <<wal, add_n, max_before, assigned>>

\* ------------------------------------------------- the rowids ever held
\* held   the rowids that rows of the record table have held so far
\* above  the rowids of the rows that were in the table above last_rowid at
\*        one of the SELECTs of the running get_all
\* obtained  the number of threads that have been handed a new connection
\*           by the pool since it was constructed or close_all was called
VARIABLES held, above, obtained

histvars == <<held, above, obtained>>

NoHistory == held = {} /\ above = {} /\ obtained = 0

allvars == <<vars, poolvars, valvars, genvars, utilvars, sharevars, racevars,
             histvars, buildvars>>

\* the characters names are made of: a letter, the underscore, a digit, a
\* character outside the pattern, and the newline
NameChars == {"t", "_", "1", "-", "\n"}

Names == SeqsUpTo(NameChars, MaxNameLen)

NoValidateCall == name = <<>> /\ outcome = "unset"

validate_table_name_call ==
    /\ outcome = "unset"
    /\ outcome' = validate_table_name(name)
    /\ UNCHANGED name

\* one more call on the client; the pool is not involved
\* one call on the client
ClientStep(call) ==
    /\ calls < MaxCalls
    /\ calls' = calls + 1
    /\ call
    /\ deleted_rowids' =
          IF last'.op = "delete" /\ last'.err = "none" /\ last'.ret = TRUE
          THEN deleted_rowids \cup {last'.args.rowid}
          ELSE deleted_rowids
    /\ UNCHANGED <<poolvars, _pool, valvars, genvars, utilvars, sharevars, racevars, buildvars>>

Client(call) == ClientStep(call) /\ UNCHANGED histvars

\* one call on the client, the rowids its table holds afterwards recorded
Tracked(call) ==
    ClientStep(call) /\ held' = held \cup DOMAIN work'.rows /\ UNCHANGED <<above, obtained>>

Next ==
    \/ \E dim \in Dims : Client(create_table(dim, "cosine"))
    \/ \E a \in AddInputs :
          /\ NextRowid(work) + Len(a[1]) - 1 <= MaxRowid
          /\ Client(add(a[1], a[2], a[3]))
    \/ \E rowid \in Rowids, f \in UpdFields : Client(update(rowid, f[1], f[2]))
    \/ \E updates \in SeqsUpTo({<<1, f[1], f[2]>> : f \in UpdManyFields}, MaxBatch) :
          Client(update_many(updates))
    \/ \E rowid \in Rowids : Client(delete(rowid))
    \/ \E rowids \in SeqsUpTo(Rowids, MaxBatch) : Client(delete_many(rowids))
    \/ \E embedding \in Embeddings, top_k \in TopKs :
          Client(similarity_search(embedding, top_k))
    \/ \E filters \in Filters, limit \in Limits, offset \in Offsets :
          Client(filter_by_metadata(filters, limit, offset))
    \/ Client(transaction_enter)
    \/ \E body \in BodyEnds : Client(transaction_exit(body))
    \/ Client(close)
    \/ Client(client_init)

\* ------------------------------------------------------------ the pool
\* _pool_size, _created, _all_connections, _local, _lock: the fields of
\* ConnectionPool; _local[t] is the attribute "connection" of thread t's
\* thread-local storage (0 when absent) and _lock the thread holding the lock
\* (0 when free).  Connections are numbered in the order the factory makes
\* them; made is their number and open the set of those not closed.
\* pc[t] is where thread t stands in get_connection and conn[t] its local
\* variable conn, torn whether close_all has been called, and plast the pool
\* call that finished last.
Threads == 1..NumThreads

PoolCall(t, op, err, c) == [thread |-> t, op |-> op, err |-> err, conn |-> c]

PoolInit ==
    /\ _pool_size \in 1..MaxPoolSize
    /\ _created = 0
    /\ _all_connections = <<>>
    /\ _local = [t \in Threads |-> 0]
    /\ _lock = 0
    /\ pc = [t \in Threads |-> "idle"]
    /\ conn = [t \in Threads |-> 0]
    /\ made = 0
    /\ open = {}
    /\ torn = FALSE
    /\ plast = PoolCall(0, "__init__", "none", 0)

\* get_connection, the path without the lock: if hasattr(self._local, "connection")
get_connection_begin(t) ==
    /\ pc[t] = "idle"
    /\ IF _local[t] # 0 THEN
           /\ plast' = PoolCall(t, "get_connection", "none", _local[t])
           /\ UNCHANGED pc
       ELSE
           /\ pc' = [pc EXCEPT ![t] = "lock"]
           /\ UNCHANGED plast
    /\ UNCHANGED <<_pool_size, _created, _all_connections, _local, _lock, conn, made,
                   open, torn>>

\* a lock that excludes nobody
Acquire_no_exclusion(t) == TRUE

\* with self._lock:
Acquire(t) == _lock = 0

get_connection_lock(t) ==
    /\ pc[t] = "lock"
    /\ Acquire(t)
    /\ _lock' = t
    /\ pc' = [pc EXCEPT ![t] = "check"]
    /\ UNCHANGED <<_pool_size, _created, _all_connections, _local, conn, made, open,
                   torn, plast>>

\* a capacity check that lets one connection too many through
Exhausted_off_by_one == _created > _pool_size

\* if self._created >= self._pool_size: raise RuntimeError
Exhausted == _created >= _pool_size

get_connection_check(t) ==
    /\ pc[t] = "check"
    /\ IF Exhausted THEN
           /\ plast' = PoolCall(t, "get_connection", "RuntimeError", 0)
           /\ pc' = [pc EXCEPT ![t] = "idle"]
           /\ _lock' = IF _lock = t THEN 0 ELSE _lock
       ELSE
           /\ pc' = [pc EXCEPT ![t] = "factory"]
           /\ UNCHANGED <<plast, _lock>>
    /\ UNCHANGED <<_pool_size, _created, _all_connections, _local, conn, made, open,
                   torn>>

\* conn = self._factory(); the factory returns a new open connection or raises
get_connection_factory(t, ok) ==
    /\ pc[t] = "factory"
    /\ IF ok THEN
           /\ made' = made + 1
           /\ open' = open \cup {made + 1}
           /\ conn' = [conn EXCEPT ![t] = made + 1]
           /\ pc' = [pc EXCEPT ![t] = "store"]
           /\ UNCHANGED <<plast, _lock>>
       ELSE
           /\ plast' = PoolCall(t, "get_connection", "ConnectionError", 0)
           /\ pc' = [pc EXCEPT ![t] = "idle"]
           /\ _lock' = IF _lock = t THEN 0 ELSE _lock
           /\ UNCHANGED <<made, open, conn>>
    /\ UNCHANGED <<_pool_size, _created, _all_connections, _local, torn>>

\* self._created += 1; append; self._local.connection = conn; return conn
get_connection_store(t) ==
    /\ pc[t] = "store"
    /\ _created' = _created + 1
    /\ _all_connections' = Append(_all_connections, conn[t])
    /\ _local' = [_local EXCEPT ![t] = conn[t]]
    /\ plast' = PoolCall(t, "get_connection", "none", conn[t])
    /\ pc' = [pc EXCEPT ![t] = "idle"]
    /\ conn' = [conn EXCEPT ![t] = 0]
    /\ _lock' = IF _lock = t THEN 0 ELSE _lock
    /\ UNCHANGED <<_pool_size, made, open, torn>>

\* a return_connection that releases the thread's connection
return_connection_releases(t) ==
    /\ pc[t] = "idle"
    /\ _local[t] # 0
    /\ _local' = [_local EXCEPT ![t] = 0]
    /\ plast' = PoolCall(t, "return_connection", "none", _local[t])
    /\ UNCHANGED <<_pool_size, _created, _all_connections, _lock, pc, conn,
                   made, open, torn>>

\* return_connection: only logs
return_connection(t) ==
    /\ pc[t] = "idle"
    /\ _local[t] # 0
    /\ plast' = PoolCall(t, "return_connection", "none", _local[t])
    /\ UNCHANGED <<_pool_size, _created, _all_connections, _local, _lock, pc, conn,
                   made, open, torn>>

\* a close_all without the try/except around conn.close(): the first close
\* that raises ends it
close_all_stops_on_error(t, failing) ==
    /\ pc[t] = "idle"
    /\ _lock = 0
    /\ failing \subseteq Range(_all_connections)
    /\ torn' = TRUE
    /\ IF failing = {} THEN
           /\ open' = open \ Range(_all_connections)
           /\ _all_connections' = <<>>
           /\ _created' = 0
           /\ plast' = PoolCall(t, "close_all", "none", 0)
       ELSE
           LET first == CHOOSE i \in DOMAIN _all_connections :
                           /\ _all_connections[i] \in failing
                           /\ \A j \in 1..(i - 1) : _all_connections[j] \notin failing
           IN  /\ open' = open \ {_all_connections[j] : j \in 1..(first - 1)}
               /\ plast' = PoolCall(t, "close_all", "ProgrammingError", 0)
               /\ UNCHANGED <<_all_connections, _created>>
    /\ UNCHANGED <<_pool_size, _local, _lock, pc, conn, made>>

\* close_all, all of it under the lock: conn.close() is tried on every tracked
\* connection, and the connections in `failing` raise instead of closing
close_all(t, failing) ==
    /\ pc[t] = "idle"
    /\ _lock = 0
    /\ failing \subseteq Range(_all_connections)
    /\ open' = open \ (Range(_all_connections) \ failing)
    /\ _all_connections' = <<>>
    /\ _created' = 0
    /\ torn' = TRUE
    /\ plast' = PoolCall(t, "close_all", "none", 0)
    /\ UNCHANGED <<_pool_size, _local, _lock, pc, conn, made>>

\* a thread end that gives the thread's slot back to the pool
thread_exit_releasing_slot(t) ==
    /\ pc[t] = "idle"
    /\ _local[t] # 0
    /\ _local' = [_local EXCEPT ![t] = 0]
    /\ _created' = IF _created > 0 THEN _created - 1 ELSE 0
    /\ plast' = PoolCall(t, "thread_exit", "none", _local[t])
    /\ UNCHANGED <<_pool_size, _all_connections, _lock, pc, conn, made, open, torn>>

\* thread t ends and another thread takes its place in Threads: what the
\* thread kept in self._local (threading.local()) goes with it, the pool has
\* no code that runs at that moment and keeps its count and its list
thread_exit(t) ==
    /\ pc[t] = "idle"
    /\ _local[t] # 0
    /\ _local' = [_local EXCEPT ![t] = 0]
    /\ plast' = PoolCall(t, "thread_exit", "none", _local[t])
    /\ UNCHANGED <<_pool_size, _created, _all_connections, _lock, pc, conn, made,
                   open, torn>>

\* a step of the pool; the client is not involved
Pool(step) == step /\ UNCHANGED <<vars, valvars, genvars, utilvars, sharevars, racevars, histvars, buildvars>>

PoolNext ==
    \/ \E t \in Threads : Pool(get_connection_begin(t))
    \/ \E t \in Threads : Pool(get_connection_lock(t))
    \/ \E t \in Threads : Pool(get_connection_check(t))
    \/ \E t \in Threads, ok \in BOOLEAN : Pool(get_connection_factory(t, ok))
    \/ \E t \in Threads : Pool(get_connection_store(t))
    \/ \E t \in Threads : Pool(return_connection(t))
    \/ \E t \in Threads, failing \in SUBSET Range(_all_connections) :
          Pool(close_all(t, failing))

\* ------------------------------------------------------------ specifications
\* one client on its own connection
InitClient == Init /\ PoolInit /\ _pool_size = 1 /\ NoValidateCall /\ NoGetAll /\ NoSerializeCall /\ NoOtherClient /\ NoRace /\ NoHistory /\ NoBuildCall /\ ~_pool

Spec == InitClient /\ [][Next]_allvars

\* one pool used by Threads
InitPool == PoolInit /\ Init /\ table = <<"t">> /\ ~_pool /\ NoValidateCall /\ NoGetAll /\ NoSerializeCall /\ NoOtherClient /\ NoRace /\ NoHistory /\ NoBuildCall

SpecPool == InitPool /\ [][PoolNext]_allvars

\* one client after the other on the connection a pool keeps for the thread,
\* or on connections of their own
InitPooled == Init /\ table = <<"t">> /\ PoolInit /\ _pool_size = 1 /\ NoValidateCall /\ NoGetAll /\ NoSerializeCall /\ NoOtherClient /\ NoRace /\ NoHistory /\ NoBuildCall

NextPooled ==
    \/ \E dim \in Dims : Client(create_table(dim, "cosine"))
    \/ \E a \in AddInputs :
          /\ NextRowid(work) + Len(a[1]) - 1 <= MaxRowid
          /\ Client(add(a[1], a[2], a[3]))
    \/ \E rowid \in Rowids : Client(delete(rowid))
    \/ Client(transaction_enter)
    \/ \E body \in BodyEnds : Client(transaction_exit(body))
    \/ Client(close)
    \/ Client(client_init)

SpecPooled == InitPooled /\ [][NextPooled]_allvars

\* one client whose create_table is called with several dimensions and
\* distance metrics
InitSchema ==
    /\ Init /\ table = <<"t">> /\ ~_pool
    /\ PoolInit /\ _pool_size = 1
    /\ NoValidateCall /\ NoGetAll /\ NoSerializeCall /\ NoOtherClient /\ NoRace /\ NoHistory /\ NoBuildCall

NextSchema ==
    \/ \E a \in CreateArgs : Client(create_table(a[1], a[2]))
    \/ \E a \in AddInputs :
          /\ NextRowid(work) + Len(a[1]) - 1 <= MaxRowid
          /\ Client(add(a[1], a[2], a[3]))
    \/ \E rowid \in Rowids, f \in UpdFields : Client(update(rowid, f[1], f[2]))
    \/ \E rowid \in Rowids : Client(delete(rowid))
    \/ \E embedding \in Embeddings, top_k \in TopKs :
          Client(similarity_search(embedding, top_k))
    \/ Client(transaction_enter)
    \/ \E body \in BodyEnds : Client(transaction_exit(body))

SpecSchema == InitSchema /\ [][NextSchema]_allvars

\* a database file in which create_table(1) was committed by an earlier client
ProvisionedDb == CreateTriggers(CreateTables(EmptyDb, 1, "cosine"))

\* one client, constructed on such a file, that adds, deletes and searches,
\* inside and outside scopes
InitDelete ==
    /\ table = <<"t">>
    /\ closed = FALSE
    /\ work = ProvisionedDb
    /\ comm = ProvisionedDb
    /\ _in_transaction = FALSE
    /\ scopes = <<>>
    /\ last = Call("__init__", <<>>, "none", None, 0, 0, 0)
    /\ calls = 0
    /\ _pool = FALSE
    /\ deleted_rowids = {}
    /\ PoolInit /\ _pool_size = 1
    /\ NoValidateCall /\ NoGetAll /\ NoSerializeCall /\ NoOtherClient /\ NoRace /\ NoHistory /\ NoBuildCall

NextDelete ==
    \/ Client(create_table(1, "cosine"))
    \/ \E a \in DeleteAdds :
          /\ NextRowid(work) + Len(a[1]) - 1 <= MaxRowid
          /\ Client(add(a[1], a[2], a[3]))
    \/ \E rowid \in Rowids : Client(delete(rowid))
    \/ \E top_k \in TopKs : Client(similarity_search(<<0>>, top_k))
    \/ \E filters \in Filters, top_k \in TopKs :
          Client(similarity_search_with_filter(<<0>>, filters, top_k))
    \/ Client(transaction_enter)
    \/ \E body \in BodyEnds : Client(transaction_exit(body))
    \/ Client(close)
    \/ Client(client_init)

SpecDelete == InitDelete /\ [][NextDelete]_allvars

\* validate_table_name applied to one string
InitValidate ==
    /\ Init /\ table = <<"t">> /\ ~_pool
    /\ PoolInit /\ _pool_size = 1
    /\ name \in Names
    /\ outcome = "unset"
    /\ NoGetAll /\ NoSerializeCall /\ NoOtherClient /\ NoRace /\ NoHistory /\ NoBuildCall

ValidateNext ==
    validate_table_name_call /\ UNCHANGED <<vars, poolvars, genvars, utilvars, sharevars, racevars, histvars, buildvars>>

SpecValidate == InitValidate /\ [][ValidateNext]_allvars

\* one client whose delete_many is given lists shorter and longer than a chunk
InitDeleteMany == InitClient /\ table = <<"t">>

NextDeleteMany ==
    \/ Client(create_table(1, "cosine"))
    \/ \E a \in DeleteAdds :
          /\ NextRowid(work) + Len(a[1]) - 1 <= MaxRowid
          /\ Client(add(a[1], a[2], a[3]))
    \/ \E rowids \in RowidLists : Client(delete_many(rowids))
    \/ Client(transaction_enter)
    \/ \E body \in BodyEnds : Client(transaction_exit(body))

SpecDeleteMany == InitDeleteMany /\ [][NextDeleteMany]_allvars

\* one client whose update and update_many are given entries with and without
\* fields, for rowids that exist and that do not
InitUpdate == InitClient /\ table = <<"t">>

NextUpdate ==
    \/ Client(create_table(1, "cosine"))
    \/ \E a \in DeleteAdds :
          /\ NextRowid(work) + Len(a[1]) - 1 <= MaxRowid
          /\ Client(add(a[1], a[2], a[3]))
    \/ \E u \in UpdEntries : Client(update(u[1], u[2], u[3]))
    \/ \E updates \in UpdLists : Client(update_many(updates))
    \/ \E rowid \in Rowids : Client(delete(rowid))

SpecUpdate == InitUpdate /\ [][NextUpdate]_allvars

\* one client whose table is filled first and then read with get_all, the
\* table being left alone from the first get_all on; the consumer goes on
\* asking for the next record
InitGetAll == InitClient /\ table = <<"t">>

Gen(step) == step /\ UNCHANGED <<vars, poolvars, valvars, utilvars, sharevars, racevars, histvars, buildvars>>

NextGetAll ==
    \/ gpc = "idle" /\ Client(create_table(1, "cosine"))
    \/ \E a \in DeleteAdds :
          /\ gpc = "idle"
          /\ NextRowid(work) + Len(a[1]) - 1 <= MaxRowid
          /\ Client(add(a[1], a[2], a[3]))
    \/ \E rowid \in Rowids : gpc = "idle" /\ Client(delete(rowid))
    \/ \E size \in BatchSizes : Gen(get_all(size))
    \/ Gen(get_all_start)
    \/ Gen(get_all_fetch)
    \/ Gen(get_all_yield)

Consume == Gen(get_all_start) \/ Gen(get_all_fetch) \/ Gen(get_all_yield)

SpecGetAll == InitGetAll /\ [][NextGetAll]_allvars /\ WF_allvars(Consume)

\* one client that filters its table page by page and counts the matches
InitFilter == InitClient /\ table = <<"t">>

NextFilter ==
    \/ Client(create_table(1, "cosine"))
    \/ \E a \in DeleteAdds :
          /\ NextRowid(work) + Len(a[1]) - 1 <= MaxRowid
          /\ Client(add(a[1], a[2], a[3]))
    \/ \E rowid \in Rowids : Client(delete(rowid))
    \/ \E filters \in Filters, limit \in PageLimits, offset \in PageOffsets :
          Client(filter_by_metadata(filters, limit, offset))
    \/ \E filters \in Filters : Client(count_by_metadata(filters))
    \/ \E filters \in Filters, top_k \in Limits :
          Client(similarity_search_with_filter(<<0>>, filters, top_k))
    \/ Client(close)

SpecFilter == InitFilter /\ [][NextFilter]_allvars

\* one client that searches its table with and without a filter
InitSearch == InitClient /\ table = <<"t">>

NextSearch ==
    \/ Client(create_table(1, "cosine"))
    \/ \E a \in DeleteAdds :
          /\ NextRowid(work) + Len(a[1]) - 1 <= MaxRowid
          /\ Client(add(a[1], a[2], a[3]))
    \/ \E rowid \in Rowids : Client(delete(rowid))
    \/ \E top_k \in Limits : Client(similarity_search(<<0>>, top_k))
    \/ \E filters \in SearchFilters, top_k \in Limits :
          Client(similarity_search_with_filter(<<0>>, filters, top_k))

SpecSearch == InitSearch /\ [][NextSearch]_allvars

\* serialize_f32 applied to one vector and deserialize_f32 to its result
InitRoundTrip ==
    /\ Init /\ table = <<"t">> /\ ~_pool
    /\ PoolInit /\ _pool_size = 1
    /\ NoValidateCall /\ NoGetAll /\ NoOtherClient /\ NoRace /\ NoHistory /\ NoBuildCall
    /\ vec \in Vectors
    /\ packed = <<>>
    /\ unpacked = <<>>
    /\ upc = "unset"

Util(step) == step /\ UNCHANGED <<vars, poolvars, valvars, genvars, sharevars, racevars, histvars, buildvars>>

NextRoundTrip ==
    \/ Util(serialize_f32_call)
    \/ Util(deserialize_f32_call)

SpecRoundTrip == InitRoundTrip /\ [][NextRoundTrip]_allvars

\* two clients a and b of one pool in one thread, on a provisioned file:
\* client a opens the scopes, and either client adds and deletes
InitShared ==
    /\ table = <<"t">>
    /\ closed = FALSE
    /\ work = ProvisionedDb
    /\ comm = ProvisionedDb
    /\ _in_transaction = FALSE
    /\ scopes = <<>>
    /\ last = Call("__init__", <<>>, "none", None, 0, 0, 0)
    /\ calls = 0
    /\ _pool = TRUE
    /\ deleted_rowids = {}
    /\ PoolInit /\ _pool_size = 1
    /\ NoValidateCall /\ NoGetAll /\ NoSerializeCall /\ NoRace /\ NoHistory /\ NoBuildCall
    /\ other = [name |-> "b", _in_transaction |-> FALSE, scopes |-> <<>>]

Switch(step) == step /\ UNCHANGED <<poolvars, valvars, genvars, utilvars, racevars, histvars, buildvars>>

NextShared ==
    \/ \E a \in DeleteAdds :
          /\ NextRowid(work) + Len(a[1]) - 1 <= MaxRowid
          /\ Client(add(a[1], a[2], a[3]))
    \/ \E rowid \in Rowids : Client(delete(rowid))
    \/ current = "a" /\ Client(transaction_enter)
    \/ \E body \in BodyEnds : Client(transaction_exit(body))
    \/ Switch(switch_client)

SpecShared == InitShared /\ [][NextShared]_allvars

\* two clients a and b on connections of their own to one provisioned file,
\* each adding to the table in a thread of its own
InitRace ==
    /\ Init /\ table = <<"t">> /\ _pool = FALSE
    /\ PoolInit /\ _pool_size = 1
    /\ NoValidateCall /\ NoGetAll /\ NoSerializeCall /\ NoOtherClient /\ NoHistory /\ NoBuildCall
    /\ file = ProvisionedDb
    /\ wal = ProvisionedDb
    /\ writer = "none"
    /\ apc = [c \in ClientNames |-> "idle"]
    /\ add_n = [c \in ClientNames |-> 0]
    /\ max_before = [c \in ClientNames |-> 0]
    /\ assigned = [c \in ClientNames |-> {}]
    /\ returned = [c \in ClientNames |-> <<>>]
    /\ overtaken = [c \in ClientNames |-> FALSE]

Race(step) ==
    step /\ UNCHANGED <<vars, poolvars, valvars, genvars, utilvars, sharevars, histvars, buildvars>>

NextRace ==
    \/ \E c \in ClientNames, n \in 1..MaxBatch : Race(add_read(c, n))
    \/ \E c \in ClientNames : Race(add_insert(c))
    \/ \E c \in ClientNames : Race(add_commit(c))

SpecRace == InitRace /\ [][NextRace]_allvars

\* one client that creates its table, adds and deletes, outside any scope
InitRowids == InitClient /\ table = <<"t">>

NextRowids ==
    \/ Tracked(create_table(1, "cosine"))
    \/ \E a \in DeleteAdds :
          /\ NextRowid(work) + Len(a[1]) - 1 <= MaxRowid
          /\ Tracked(add(a[1], a[2], a[3]))
    \/ \E rowid \in Rowids : Tracked(delete(rowid))
    \/ \E rowids \in SeqsUpTo(Rowids, MaxBatch) : Tracked(delete_many(rowids))

SpecRowids == InitRowids /\ [][NextRowids]_allvars

\* the files offered to the imports: up to MaxBatch records with different
\* rowids, in any order
ImportFiles ==
    {f \in SeqsUpTo(Rowids, MaxBatch) : \A i, j \in DOMAIN f : i # j => f[i] # f[j]}

\* one client on a provisioned file that adds, deletes and imports
InitImport == InitDelete

NextImport ==
    \/ \E a \in DeleteAdds :
          /\ NextRowid(work) + Len(a[1]) - 1 <= MaxRowid
          /\ Client(add(a[1], a[2], a[3]))
    \/ \E rowid \in Rowids : Client(delete(rowid))
    \/ \E records \in ImportFiles, skip \in BOOLEAN, size \in BatchSizes :
          /\ NextRowid(work) + Len(records) - 1 <= MaxRowid
          /\ Client(import_from_json(records, skip, size))
    \/ \E records \in ImportFiles, skip \in BOOLEAN, size \in BatchSizes :
          /\ NextRowid(work) + Len(records) - 1 <= MaxRowid
          /\ Client(import_from_csv(records, skip, size))

SpecImport == InitImport /\ [][NextImport]_allvars

\* build_metadata_where_clause called once with each of the filter mappings
InitBuild ==
    /\ Init /\ table = <<"t">> /\ _pool = FALSE
    /\ PoolInit /\ _pool_size = 1
    /\ NoValidateCall /\ NoGetAll /\ NoSerializeCall /\ NoOtherClient /\ NoRace
    /\ held = {} /\ above = {} /\ obtained = 0
    /\ bfilters \in FilterMaps
    /\ bsql = <<>>
    /\ bparams = <<>>
    /\ bpc = "unset"

NextBuild ==
    build_metadata_where_clause_call
    /\ UNCHANGED <<vars, poolvars, valvars, genvars, utilvars, sharevars, racevars,
                   histvars>>

SpecBuild == InitBuild /\ [][NextBuild]_allvars

\* a pool whose threads come and go: a thread that has ended is replaced by
\* a new one, and close_all is called at most once
InitPoolThreads == InitPool

\* a step of the pool, the threads handed a new connection counted
PoolTracked(step) ==
    /\ step
    /\ obtained' = IF plast' # plast /\ plast'.op = "close_all" THEN 0
                   ELSE IF \E t \in Threads : pc[t] = "store" /\ pc'[t] = "idle"
                        THEN obtained + 1
                   ELSE obtained
    /\ UNCHANGED <<vars, valvars, genvars, utilvars, sharevars, racevars, held, above, buildvars>>

NextPoolThreads ==
    \/ \E t \in Threads : PoolTracked(get_connection_begin(t))
    \/ \E t \in Threads : PoolTracked(get_connection_lock(t))
    \/ \E t \in Threads : PoolTracked(get_connection_check(t))
    \/ \E t \in Threads, ok \in BOOLEAN : PoolTracked(get_connection_factory(t, ok))
    \/ \E t \in Threads : PoolTracked(get_connection_store(t))
    \/ \E t \in Threads : PoolTracked(return_connection(t))
    \/ \E t \in Threads : PoolTracked(thread_exit(t))
    \/ \E t \in Threads : ~torn /\ PoolTracked(close_all(t, {}))

SpecPoolThreads == InitPoolThreads /\ [][NextPoolThreads]_allvars

\* one client whose table gets rows added and deleted while a get_all of it
\* is being consumed: the generator runs only when the consumer asks for the
\* next record, and the consumer may call the client between two records
InitGetAllMutating == InitClient /\ table = <<"t">>

\* a step of the generator, the rows above the cursor recorded at each SELECT
GenTracked(step) ==
    /\ step
    /\ above' = IF gpc = "start" THEN {}
                ELSE IF gpc = "fetch" /\ gpc' \in {"yield", "done"}
                     THEN above \cup {r \in DOMAIN work.rows : r > last_rowid}
                ELSE above
    /\ UNCHANGED <<vars, poolvars, valvars, utilvars, sharevars, racevars, held, obtained, buildvars>>

NextGetAllMutating ==
    \/ gpc = "idle" /\ Client(create_table(1, "cosine"))
    \/ \E a \in DeleteAdds :
          /\ work.base
          /\ NextRowid(work) + Len(a[1]) - 1 <= MaxRowid
          /\ Client(add(a[1], a[2], a[3]))
    \/ \E rowid \in Rowids : work.base /\ Client(delete(rowid))
    \/ \E size \in BatchSizes : Gen(get_all(size))
    \/ GenTracked(get_all_start)
    \/ GenTracked(get_all_fetch)
    \/ GenTracked(get_all_yield)

ConsumeTracked ==
    GenTracked(get_all_start) \/ GenTracked(get_all_fetch) \/ GenTracked(get_all_yield)

SpecGetAllMutating ==
    InitGetAllMutating /\ [][NextGetAllMutating]_allvars /\ WF_allvars(ConsumeTracked)

\* ------------------------------------------------------------ properties
\* the database a statement sees has one index entry per record, holding the
\* record's embedding
InSync(db) ==
    /\ DOMAIN db.index = DOMAIN db.rows
    /\ \A r \in DOMAIN db.rows : db.index[r] = db.rows[r].emb

Mutating == {"add", "update", "update_many", "delete", "delete_many"}

\* update with no field, update_many([]) and delete_many([]) return before
\* they touch the connection
EarlyReturn(call) ==
    /\ call.op \in {"update", "update_many", "delete_many"}
    /\ call.args.n = 0

\* C1: after any sequence of create_table, add, update, update_many, delete
\* and delete_many calls, inside or outside a transaction scope and whether
\* the scope commits or rolls back, the index holds exactly one entry per
\* record, under the record's rowid and equal to the record's embedding, and
\* no entry without a record: both in what the connection sees and in what
\* is committed.
C1_IndexInSync == InSync(work) /\ InSync(comm)

\* a scope that rolled back over a table in which a record's embedding had
\* been replaced by update
C1_Witness ==
    /\ last.op = "transaction.exit"
    /\ last.err = "Exception"
    /\ \E r \in DOMAIN work.rows : work.rows[r].emb = serialize_f32(<<1>>)

\* C2: a transaction scope that raises leaves the record table, row count
\* and contents, exactly as it was at scope entry; a scope of adds only that
\* exits normally over N records leaves N + M records, M the rows added in it.
C2_ScopeAtomic ==
    (last.op = "transaction.exit" /\ last.args.scope.pure) =>
        /\ last.args.body # "returns" => work.rows = last.args.scope.entry
        /\ (last.args.body = "returns" /\ last.err = "none"
                /\ last.args.scope.onlyadd) =>
              Cardinality(DOMAIN work.rows)
                  = Cardinality(DOMAIN last.args.scope.entry) + last.args.scope.added

C4_OneTerminatingAction ==
    last.op = "transaction.exit" =>
        IF last.args.body = "returns"
           THEN last.commits = 1 /\ last.rollbacks = 0
           ELSE last.commits = 0 /\ last.rollbacks = 1 /\ last.err = last.args.body

\* C5: the deferred-commit flag is false whenever no transaction scope is
\* executing, whichever way the scopes were left.
C5_FlagCleared == scopes = <<>> => ~_in_transaction

\* the last scope was left by a commit or a rollback that raised
C5_Witness ==
    /\ last.op = "transaction.exit"
    /\ last.err = "ProgrammingError"
    /\ scopes = <<>>
    /\ ~_in_transaction

\* C6: the rowids add returns are those of the records it inserted: the i-th
\* is the rowid of a record holding the i-th text.
C6_ReturnedRowids ==
    (last.op = "add" /\ last.err = "none") =>
        \A i \in DOMAIN last.ret :
            /\ last.ret[i] \in DOMAIN work.rows
            /\ work.rows[last.ret[i]].text = last.args.texts[i]

\* C7: an add that raises leaves none of its rows in the record table or in
\* the index.
C7_FailedAddLeavesNothing ==
    [][(last'.op = "add" /\ last'.err # "none") =>
          work'.rows = work.rows /\ work'.index = work.index]_allvars

\* C8: add, update, update_many and similarity_search given a vector whose
\* length differs from the dimension of the table raise
\* DimensionMismatchError, and no statement has been passed to the engine.
C8_DimensionChecked ==
    (/\ last.op \in {"add", "update", "update_many", "similarity_search"}
     /\ last.args.baddim
     /\ last.err # "ValidationError"
     /\ ~closed) =>
        last.err = "DimensionMismatchError" /\ ~last.executed

\* C9: a call that raises a validation error has passed no statement to the
\* engine and leaves the record table, the index and the provisioning as they
\* were, in what the connection sees and in what is committed.
C9_RejectedBeforeStatements ==
    [][last'.err \in {"ValidationError", "TableNameError"} =>
          ~last'.executed /\ work' = work /\ comm' = comm]_allvars

\* an add with lists of unequal length, rejected over a table with records
C9_Witness ==
    /\ last.op = "add"
    /\ last.err = "ValidationError"
    /\ work.rows # EmptyFn

\* C10: under every interleaving of get_connection calls the connections
\* made and not closed never exceed pool_size, and the factory is not called
\* when the created count has reached pool_size.  (Connections that close_all
\* failed to close are outside the count the pool keeps.)
C10_PoolBounded ==
    [][/\ made' # made => _created < _pool_size
       /\ ~torn' => Cardinality(open') <= _pool_size]_allvars

\* the pool is full and a thread was turned away
C10_Witness ==
    /\ ~torn
    /\ Cardinality(open) = _pool_size
    /\ plast.err = "RuntimeError"

\* the threads whose thread-local connection the pool tracks
Holders == {t \in Threads : _local[t] # 0 /\ _local[t] \in Range(_all_connections)}

\* C11: when pool_size threads hold connections of the pool, a get_connection
\* of a thread that has none, once past the lock, ends at the capacity check:
\* it raises RuntimeError, calls no factory, and leaves the created count,
\* the tracked connections, the open connections and every thread's
\* connection as they were.
C11_CapacityError ==
    [][\A t \in Threads :
          (/\ Cardinality(Holders) = _pool_size
           /\ _local[t] = 0
           /\ pc[t] = "check"
           /\ pc'[t] # "check") =>
              /\ pc'[t] = "idle"
              /\ plast' = PoolCall(t, "get_connection", "RuntimeError", 0)
              /\ UNCHANGED <<_created, _all_connections, _local, open, made>>]_allvars

\* a thread without a connection was turned away by a pool whose pool_size
\* connections are all held
C11_Witness ==
    /\ Cardinality(Holders) = _pool_size
    /\ plast.op = "get_connection"
    /\ plast.err = "RuntimeError"
    /\ _local[plast.thread] = 0

\* C12: a thread that has obtained a connection keeps it: its thread-local
\* handle never changes, it never goes for the lock or the factory again, and
\* each later get_connection of it returns that handle with the created
\* count, the tracked connections and the factory's count unchanged;
\* return_connection changes nothing of the pool.
C12_SameHandle ==
    [][\A t \in Threads :
          /\ _local[t] # 0 =>
                /\ _local'[t] = _local[t]
                /\ pc'[t] = "idle"
          /\ (_local[t] # 0 /\ plast' # plast /\ plast'.thread = t
                /\ plast'.op = "get_connection") =>
                /\ plast'.err = "none"
                /\ plast'.conn = _local[t]
                /\ UNCHANGED <<_created, _all_connections, made, open>>
          /\ (plast' # plast /\ plast'.thread = t
                /\ plast'.op = "return_connection") =>
                UNCHANGED <<_pool_size, _created, _all_connections, _local, _lock,
                            pc, conn, made, open, torn>>]_allvars

\* a thread was handed its connection again after another thread had
\* obtained a newer one
C12_Witness ==
    /\ plast.op = "get_connection"
    /\ plast.err = "none"
    /\ plast.conn \in open
    /\ plast.conn = _local[plast.thread]
    /\ \E u \in Threads : _local[u] > plast.conn

\* C13: a get_connection that returns, also after close_all and also to a
\* thread that had a connection before the teardown, returns a connection
\* that is open and that the pool tracks.
C13_ReusableAfterCloseAll ==
    (plast.op = "get_connection" /\ plast.err = "none") =>
        /\ plast.conn \in open
        /\ plast.conn \in Range(_all_connections)

C15_PooledClose ==
    [][/\ _pool => closed' = closed
       /\ (_pool /\ last'.op \in {"close", "__init__"}) =>
             work' = work /\ comm' = comm
       /\ (~_pool /\ last'.op = "close") => closed']_allvars

\* a client of the pool, constructed after an earlier one was closed, on a
\* connection that is open and holds the rows committed before
C15_Witness ==
    /\ _pool
    /\ last.op = "__init__"
    /\ calls >= 4
    /\ ~closed
    /\ work.rows # EmptyFn
    /\ work = comm

\* C16: a client whose table name fails the identifier check passes no
\* statement to the engine: every operation that interpolates the name
\* raises TableNameError first.
C16_InvalidNameNeverExecuted ==
    validate_table_name(table) # "none" =>
        /\ ~last.executed
        /\ last.op \in {"create_table", "add", "update", "update_many", "delete",
                        "delete_many", "similarity_search", "filter_by_metadata"} =>
              (last.err = "TableNameError" \/ EarlyReturn(last))

\* a string is an identifier: not empty, a letter or underscore first, then
\* letters, digits and underscores only
IsIdentifier(str) ==
    /\ Len(str) >= 1
    /\ str[1] \in Letters
    /\ \A i \in 2..Len(str) : str[i] \in Letters \cup Digits

\* C17: validate_table_name returns for exactly the identifiers and raises
\* TableNameError for every other string.
C17_ExactlyIdentifiers ==
    outcome # "unset" =>
        IF IsIdentifier(name) THEN outcome = "none" ELSE outcome = "TableNameError"

\* C18: a record access call that passes a statement to the engine while the
\* table does not exist raises TableNotFoundError.
C18_TableNotFound ==
    (/\ last.op \in {"add", "update", "update_many", "delete", "delete_many",
                     "similarity_search", "filter_by_metadata"}
     /\ last.executed
     /\ validate_table_name(table) = "none"
     /\ ~work.base) =>
        last.err = "TableNotFoundError"

\* the tables and the three triggers of create_table exist
Provisioned(db) ==
    /\ db.base
    /\ db.vec
    /\ db.trig = {"embed_text", "update_text_embedding", "delete_row"}

\* C19: create_table on a provisioned table, with arguments that pass
\* validation and on an open connection, raises nothing and changes nothing
\* the connection sees: tables, triggers and rows are as before, and the
\* dimension and the distance metric are those of the first creation
\* whatever dim and distance are passed.
C19_CreateTableIdempotent ==
    [][(/\ last'.op = "create_table"
        /\ Provisioned(work)
        /\ ~closed
        /\ last'.err \notin {"ValidationError", "TableNameError"}) =>
           /\ last'.err = "none"
           /\ work' = work]_allvars

\* create_table has returned on a table with rows that is bound to another
\* dimension and another metric than the ones passed
C19_Witness ==
    /\ last.op = "create_table"
    /\ last.err = "none"
    /\ work.rows # EmptyFn
    /\ last.args.dim # work.dim
    /\ last.args.distance # work.metric

\* the rowids in the list a similarity search has just returned
Returned ==
    IF last.op \in {"similarity_search", "similarity_search_with_filter"}
       /\ last.err = "none"
    THEN {last.ret[i][1] : i \in DOMAIN last.ret}
    ELSE {}

\* delete(r) has just returned True
DeletedTrue(r) ==
    /\ last.op = "delete"
    /\ last.err = "none"
    /\ last.ret = TRUE
    /\ last.args.rowid = r

\* what a delete that returns does: True takes the row from the record table
\* and from the index and count() down by one, False leaves all as it was
DeleteEffect ==
    \A r \in Rowids :
        /\ DeletedTrue(r)' =>
              /\ get(r)' = None
              /\ count' = count - 1
              /\ r \notin DOMAIN work'.index
        /\ (/\ last'.op = "delete"
            /\ last'.err = "none"
            /\ last'.ret = FALSE
            /\ last'.args.rowid = r) => work' = work

Undone ==
    /\ last'.op \in {"transaction.exit", "close"}
    /\ work' = comm

C21_DeleteManyAsOneStatement ==
    [][\A rowids \in RowidLists :
          (Client(delete_many(rowids)) /\ last'.err = "none" /\ rowids # <<>>) =>
              LET gone == Range(rowids) \cap DOMAIN work.rows
                  one == DeleteStmt(work, rowids)
              IN  /\ DOMAIN work'.rows = DOMAIN work.rows \ gone
                  /\ \A r \in DOMAIN work'.rows : work'.rows[r] = work.rows[r]
                  /\ last'.ret = Cardinality(gone)
                  /\ work' = one.db
                  /\ last'.ret = one.rowcount]_allvars

\* delete_many has returned from a list longer than a chunk, with one row
\* removed and another left
C21_Witness ==
    /\ last.op = "delete_many"
    /\ last.err = "none"
    /\ last.args.n > chunk_size
    /\ last.ret = 1
    /\ DOMAIN work.rows # {}

\* the entry gives a text or an embedding
HasField(u) == u[2] # None \/ u[3] # NoneVec

AllRecords(db) ==
    LET ids == Ascending(DOMAIN db.rows)
    IN  [i \in DOMAIN ids |-> Result(db, ids[i])]

\* C23: on a table left alone during the iteration, a get_all(batch_size) with
\* batch_size >= 1 that is consumed to the end terminates; the records handed
\* out are at every moment in strictly ascending order of rowid, and at the end
\* they are all the records of the table, each once, also for a row count that
\* is a multiple of batch_size and for the empty table.
C23_GetAllComplete ==
    /\ [](\A i, j \in DOMAIN yielded : i < j => yielded[i][1] < yielded[j][1])
    /\ [](gpc = "done" => yielded = AllRecords(work))
    /\ (gpc = "start" /\ batch_size >= 1 /\ work.base) ~> (gpc = "done")

\* get_all has ended on a table whose row count is batch_size times two
C23_Witness ==
    /\ gpc = "done"
    /\ batch_size >= 1
    /\ Len(yielded) = 2 * batch_size

\* the pages at offset, offset + limit, ... one after the other, up to the
\* first empty one
RECURSIVE Pages(_, _, _, _)
Pages(db, where, limit, offset) ==
    LET page == SelectWhere(db, where, limit, offset)
    IN  IF page = <<>> THEN <<>>
        ELSE page \o Pages(db, where, limit, offset + limit)

\* the records that satisfy the conditions, in ascending order of rowid
AllMatches(db, where) ==
    LET ids == Ascending({r \in DOMAIN db.rows :
                             WhereHolds(db.rows[r].metadata, where)})
    IN  [i \in DOMAIN ids |-> Result(db, ids[i])]

\* C24: for the table as it is and a filter f, the pages of filter_by_metadata
\* at offsets 0, L, 2L, ... put together list every match once in ascending
\* order of rowid, and their number is what count_by_metadata(f) returns.
C24_PagesPartition ==
    work.base =>
        \A filters \in Filters \ {<<>>}, limit \in PageLimits :
            LET where == build_metadata_where_clause(filters)
                all == Pages(work, where, limit, 0)
            IN  /\ all = AllMatches(work, where)
                /\ \A i, j \in DOMAIN all : i < j => all[i][1] < all[j][1]
                /\ Len(all) = CountWhere(work, where)

\* filter_by_metadata has returned a page of one record from a table in which
\* two records match the filter
C24_Witness ==
    /\ last.op = "filter_by_metadata"
    /\ last.err = "none"
    /\ Len(last.ret) = 1
    /\ \E filters \in Filters \ {<<>>} :
          CountWhere(work, build_metadata_where_clause(filters)) = 2

\* the metadata dict has, for every key of the filter, the value the filter
\* gives (a key that is absent counts as null)
Satisfies(md, filters) ==
    \A i \in DOMAIN filters :
        LET key == filters[i][1]
            value == filters[i][2]
        IN  IF value[1] = "null"
               THEN key \notin DOMAIN md \/ md[key][1] = "null"
               ELSE key \in DOMAIN md /\ md[key] = value

\* C25: a similarity_search_with_filter(q, filters, top_k = K) that returns,
\* returns at most K rows, every one with stored metadata that satisfies the
\* filter, and they are the rows of a similarity_search(q, top_k = K) on the
\* same table whose metadata satisfies the filter, no row from outside the K
\* nearest being added when fewer than K match.
C25_FilteredSearch ==
    [][last'.op = "similarity_search_with_filter" =>
          \A filters \in SearchFilters, top_k \in Limits :
              (/\ Client(similarity_search_with_filter(<<0>>, filters, top_k))
               /\ last'.err = "none") =>
                  LET md(row) == json_loads(work.rows[row[1]].metadata)
                  IN  /\ Len(last'.ret) <= top_k
                      /\ \A i \in DOMAIN last'.ret :
                            Satisfies(md(last'.ret[i]), filters)
                      /\ \E sim \in KnnResults(work, serialize_f32(<<0>>), top_k) :
                            last'.ret =
                                SelectSeq(sim, LAMBDA row : Satisfies(md(row), filters))
      ]_allvars

\* the call was refused by validation: no statement reached the engine
RefusedByValidation ==
    /\ last'.err = "ValidationError"
    /\ ~last'.executed
    /\ work' = work
    /\ comm' = comm

\* C26: filter_by_metadata, count_by_metadata and similarity_search_with_filter
\* called with the empty filter mapping raise ValidationError before any
\* statement executes, on an open and on a closed connection, with and without
\* the tables.
C26_EmptyFilterRefused ==
    [][/\ \A limit \in PageLimits, offset \in PageOffsets :
            Client(filter_by_metadata(<<>>, limit, offset)) => RefusedByValidation
       /\ Client(count_by_metadata(<<>>)) => RefusedByValidation
       /\ \A top_k \in Limits :
            Client(similarity_search_with_filter(<<0>>, <<>>, top_k)) =>
                RefusedByValidation]_allvars

\* filter_by_metadata was refused on a table that has rows
C26_Witness ==
    /\ last.op = "filter_by_metadata"
    /\ last.err = "ValidationError"
    /\ ~last.executed
    /\ ~closed
    /\ work.rows # EmptyFn

\* C27: deserialize_f32(serialize_f32(v)) = v for every vector of values a
\* float32 holds exactly, the empty vector included, which packs to no byte
\* and unpacks to the empty list; the blob has 4 * len(v) bytes.
C27_RoundTrip ==
    /\ upc # "unset" => Len(packed) = 4 * Len(vec)
    /\ upc # "unset" => \A i \in DOMAIN packed : packed[i] \in 0..255
    /\ upc = "unpacked" => unpacked = vec

\* a vector of the greatest length, with a negative value and the largest
\* odd one, has gone through both calls
C27_Witness ==
    /\ upc = "unpacked"
    /\ Len(vec) = MaxVecLen
    /\ \E i \in DOMAIN vec : vec[i] < 0
    /\ \E i \in DOMAIN vec : vec[i] = 16777215

\* C28: the exit of a transaction() scope that was entered inside another one
\* leaves the outer scope deferring: the flag is still set after it and what
\* is committed has not changed, so that an error later in the outer scope
\* rolls back the changes of both scopes.
C28_InnerExitKeepsDeferral ==
    [][(last'.op = "transaction.exit" /\ Len(scopes) > 1) =>
          /\ _in_transaction'
          /\ comm' = comm]_allvars

\* C29: no call made inside an open transaction scope commits: between the
\* entry of a scope and its exit, with the flag set, every call of the client
\* (create_table included) makes no commit and leaves what is committed as it
\* is, so that an error later in the scope rolls everything back.
C29_NoCommitInsideScope ==
    [][(/\ Len(scopes) = 1
        /\ _in_transaction
        /\ last'.op \notin {"transaction.enter", "transaction.exit"}) =>
           /\ last'.commits = 0
           /\ comm' = comm]_allvars

\* the row a database holds under a rowid, as a sequence: empty when it
\* holds none
RowAt(db, r) == IF r \in DOMAIN db.rows THEN <<db.rows[r]>> ELSE <<>>

\* the rowids whose rows the open transaction of the connection has changed
DeferredRowids == {r \in Rowids : RowAt(work, r) # RowAt(comm, r)}

\* C30: while the other client of the shared connection has a scope open, a
\* mutating call of the client that has none leaves every row that scope has
\* deferred uncommitted.
C30_OtherScopeStaysDeferred ==
    [][(/\ other.scopes # <<>>
        /\ other._in_transaction
        /\ scopes = <<>>
        /\ last'.op \in {"add", "delete"}
        /\ calls' = calls + 1) =>
           \A r \in DeferredRowids : RowAt(comm', r) = RowAt(comm, r)]_allvars

\* C31: the rowid range an add returns is the range of the rowids its rows
\* were given exactly when no other connection committed an insert between
\* its read of the maximum rowid and its insert: the read is not atomic with
\* the insert, and an add that is overtaken returns the rowid of a row of the
\* other caller.
C31_RangeRightUnlessOvertaken ==
    \A c \in ClientNames :
        (apc[c] = "idle" /\ returned[c] # <<>>) =>
            (Range(returned[c]) = assigned[c]) = ~overtaken[c]

\* the range client a was returned holds a rowid that is the rowid of a row
\* of client b
C31_Witness ==
    /\ apc["a"] = "idle"
    /\ \E r \in Range(returned["a"]) :
          /\ r \in DOMAIN file.rows
          /\ file.rows[r].text = "b"

\* C32: over add, delete and delete_many calls, every rowid the record table
\* gives a new row is larger than every rowid a row has held before, whether
\* that row is still there or has been deleted: no rowid is used twice.
C32_RowidsNeverReused ==
    [][\A r \in DOMAIN work'.rows \ DOMAIN work.rows :
           /\ r \notin held
           /\ r > MaxOf(held)]_allvars

\* a row has been added after the row that held the maximum rowid was deleted
C32_Witness ==
    /\ last.op = "add"
    /\ last.err = "none"
    /\ DOMAIN work.rows = {2}
    /\ held = {1, 2}

\* C33: an update_many that raises has applied none of its updates: the rows
\* and the index entries the connection sees are those from before the call.
C33_FailedUpdateManyAppliesNothing ==
    [][(last'.op = "update_many" /\ last'.err # "none") =>
           /\ work'.rows = work.rows
           /\ work'.index = work.index]_allvars

\* the frame of a list of (rowid, text, embedding) updates between two
\* databases: the same rowids before and after; a text differs only where an
\* entry gives a text for the rowid, an embedding only where an entry gives an
\* embedding, a metadata nowhere; an index entry differs only where an entry
\* gives an embedding for its rowid
FrameOf(updates, before, after) ==
    /\ DOMAIN after.rows = DOMAIN before.rows
    /\ DOMAIN after.index = DOMAIN before.index
    /\ \A r \in DOMAIN before.rows :
          /\ after.rows[r].text # before.rows[r].text =>
                \E i \in DOMAIN updates : updates[i][1] = r /\ updates[i][2] # None
          /\ after.rows[r].emb # before.rows[r].emb =>
                \E i \in DOMAIN updates : updates[i][1] = r /\ updates[i][3] # NoneVec
          /\ after.rows[r].metadata = before.rows[r].metadata
    /\ \A r \in DOMAIN before.index :
          after.index[r] # before.index[r] =>
              \E i \in DOMAIN updates : updates[i][1] = r /\ updates[i][3] # NoneVec

YieldedRowids == {yielded[i][1] : i \in DOMAIN yielded}

\* C35 as stated: while rows are added and deleted between the records of a
\* get_all, the rowids handed out are strictly increasing, and when the
\* iteration has ended every row that was above the cursor at one of its
\* SELECTs has been handed out.
C35_AllAboveCursorYielded ==
    /\ \A i, j \in DOMAIN yielded : i < j => yielded[i][1] < yielded[j][1]
    /\ gpc = "done" => above \subseteq YieldedRowids

\* C35, amended: the rowids handed out are strictly increasing; when the
\* iteration has ended every row that was above the cursor at one of its SELECTs
\* has been handed out unless it was deleted before the SELECT of its page; and
\* an iteration with batch_size >= 1 on an existing table ends once the calls
\* that add rows have stopped.
C35_AllAboveCursorYieldedUnlessDeleted ==
    /\ [](\A i, j \in DOMAIN yielded : i < j => yielded[i][1] < yielded[j][1])
    /\ [](gpc = "done" =>
             \A r \in above :
                 \/ r \in YieldedRowids
                 \/ r \in deleted_rowids /\ r \notin DOMAIN work.rows)
    /\ (gpc = "start" /\ batch_size >= 1 /\ work.base) ~> (gpc = "done")

\* a get_all has ended that handed out row 1 and not row 2, which was above
\* the cursor at the first SELECT and deleted before the second
C35_Witness ==
    /\ gpc = "done"
    /\ 1 \in YieldedRowids
    /\ 2 \in above \ YieldedRowids
    /\ 2 \in deleted_rowids

SampleMetadata ==
    {json_dumps(EmptyDict)} \cup {json_dumps([k \in {"k"} |-> v]) : v \in FilterValues}

\* C37: build_metadata_where_clause({}) returns an empty parameter list and a
\* text that, placed after WHERE, is a predicate true of every row.
C37_EmptyCompilesToTrue ==
    (bpc = "built" /\ bfilters = <<>>) =>
        /\ bparams = <<>>
        /\ WhereParses(bsql)
        /\ \A md \in SampleMetadata :
              WhereHolds(md, build_metadata_where_clause(bfilters))

\* the texts of the four comparison forms: each holds placeholders only
Forms ==
    {"json_extract(metadata, ?) IS NULL", "json_extract(metadata, ?) = json(?)",
     "CAST(json_extract(metadata, ?) AS REAL) = ?", "json_extract(metadata, ?) = ?"}

\* the number of parameters the entries before entry i of a mapping put on
\* the list: one for a null value, two for any other
ParamsBefore(f, i) ==
    2 * (i - 1) - Cardinality({j \in 1..(i - 1) : f[j][2][1] = "null"})

\* two mappings whose values have, entry by entry, the same type
SameTypes(f, g) ==
    /\ Len(f) = Len(g)
    /\ \A i \in DOMAIN f : f[i][2][1] = g[i][2][1]

\* C38: for a mapping of n >= 1 keys the text is n comparison forms with
\* " AND " between them; the parameter list holds, entry by entry in the order
\* of the keys, the path "$." + key and then the parameter of the value (the
\* path alone for null); the text is made of placeholder forms only, and every
\* mapping with the same sequence of value types compiles to the same text.
C38_OneFormPerKeyInOrder ==
    (bpc = "built" /\ bfilters # <<>>) =>
        LET n == Len(bfilters)
        IN  /\ Len(bsql) = 2 * n - 1
            /\ \A i \in 1..n : bsql[2 * i - 1] \in Forms
            /\ \A i \in 1..(n - 1) : bsql[2 * i] = " AND "
            /\ Len(bparams) = ParamsBefore(bfilters, n + 1)
            /\ \A i \in 1..n :
                  LET value == bfilters[i][2]
                      at == ParamsBefore(bfilters, i)
                  IN  /\ bparams[at + 1] = <<"$", bfilters[i][1]>>
                      /\ value[1] # "null" =>
                            bparams[at + 2] \in {value, float(value), json_dumps(value)}
            /\ \A g \in FilterMaps :
                  SameTypes(g, bfilters) =>
                      where_sql(build_metadata_where_clause(g)) = bsql

\* a mapping of two keys, the first with a null value, has been compiled to
\* two forms and three parameters
C38_Witness ==
    /\ bpc = "built"
    /\ Len(bfilters) = 2
    /\ bfilters[1][2][1] = "null"
    /\ Len(bsql) = 3
    /\ Len(bparams) = 3

\* a mapping with every int value replaced by the float of the same number
AsFloats(f) ==
    [i \in DOMAIN f |->
        <<f[i][1], IF f[i][2][1] = "int" THEN <<"num", f[i][2][2]>> ELSE f[i][2]>>]

\* C39: entry by entry the form follows the type of the value: IS NULL for
\* null, JSON equality with the JSON text of the value for a boolean, the
\* float cast with the value as a float for an int or a float, direct
\* equality with the value for anything else; a mapping and the same mapping
\* with its ints written as floats compile to the same text and parameters.
C39_FormByValueType ==
    bpc = "built" =>
        /\ \A i \in DOMAIN bfilters :
              LET value == bfilters[i][2]
                  at == ParamsBefore(bfilters, i)
                  form == bsql[2 * i - 1]
              IN  /\ value[1] = "null" =>
                        form = "json_extract(metadata, ?) IS NULL"
                  /\ value[1] = "bool" =>
                        /\ form = "json_extract(metadata, ?) = json(?)"
                        /\ bparams[at + 2] = <<"json", value>>
                  /\ value[1] \in {"int", "num"} =>
                        /\ form = "CAST(json_extract(metadata, ?) AS REAL) = ?"
                        /\ bparams[at + 2] = <<"num", value[2]>>
                  /\ value[1] = "str" =>
                        /\ form = "json_extract(metadata, ?) = ?"
                        /\ bparams[at + 2] = value
        /\ where_sql(build_metadata_where_clause(AsFloats(bfilters))) = bsql
        /\ where_params(build_metadata_where_clause(AsFloats(bfilters))) = bparams

\* {"n": 5} has been compiled to the float-cast form with the float 5.0
C39_Witness ==
    /\ bpc = "built"
    /\ bfilters = <<(<<"n", <<"int", 5>>>>)>>
    /\ bsql = <<"CAST(json_extract(metadata, ?) AS REAL) = ?">>
    /\ bparams = <<(<<"$", "n">>), <<"num", 5>>>>

\* C40: an import with skip_duplicates=True that returns has added one row for
\* each record whose rowid the table did not hold when the import started and
\* none for the others, and it returns the number of rows it added, whatever
\* the batch_size.
C40_SkipsExactlyThePresent ==
    [][(/\ last'.op \in {"import_from_json", "import_from_csv"}
        /\ calls' = calls + 1
        /\ last'.err = "none"
        /\ last'.args.skip_duplicates) =>
           LET records == last'.args.records
               fresh == {i \in DOMAIN records : records[i] \notin DOMAIN work.rows}
           IN  /\ last'.ret = Cardinality(fresh)
               /\ last'.ret = Cardinality(DOMAIN work'.rows \ DOMAIN work.rows)]_allvars

====
